---- MODULE Spec2Model ----
(***************************************************************************)
(* GameHub: the in-memory catalog (all_games), its SQLite store, the       *)
(* rescan/reconcile of scan_library_background, the field updates, the     *)
(* playtime tracker and the cover fetch pipeline.                          *)
(*                                                                         *)
(* Game objects are mutable Python objects shared by reference, so the     *)
(* model keeps a heap of objects and all_games is a list of references.    *)
(***************************************************************************)
EXTENDS Integers, Sequences, FiniteSets, TLC

\* ------------------------------------------------------------------ bounds
\* operations (rescans, updates, commits, cover batches, removals) over a run
MaxOps == 3
\* Titles a rescan leaves without a cover when the cover pipeline starts
MaxTitles == 7
\* files in a directory of a candidate install folder
MaxFiles == 2
\* the wall clock stops advancing here (ticks)
MaxTime == 125
\* ticks of the wall clock in a second
TicksPerSecond == 2
\* trackers started over a run
MaxLaunches == 1

\* ------------------------------------------------------- program constants
\* time.sleep(5) between two polls of a tracker
PollInterval == 5
\* for _ in range(12) in detect_game_process
DetectAttempts == 12
\* batch = queue[:5]
BatchSize == 5
\* self.debounce_period = 2 # seconds
DebouncePeriod == 2

\* ------------------------------------------------------------ Python values
\* Python's None in a string-valued field
NONE == "<None>"
\* an attribute that was never set on the object (avg_fps, best_ping)
NOATTR == "<no attribute>"

\* truth value of an Optional[str]: None and "" are falsy
Truthy(s) == s # NONE /\ s # ""

\* str(x) as save_games_to_db applies it to launch_id
PyStr(x) == IF x = NONE THEN "None" ELSE x

\* getattr(g, attr, "")
GetAttr(v) == IF v = NOATTR THEN "" ELSE v

Range(f) == {f[i] : i \in DOMAIN f}

\* ----------------------------------------------------------------- game.py
\* Game(name, source, launch_id, install_path): the dataclass defaults
NewGame(name, source, launch_id, install_path) ==
    [name |-> name, source |-> source, launch_id |-> launch_id,
     install_path |-> install_path,
     favorite |-> FALSE, hidden |-> FALSE,
     last_played |-> <<>>, playtime_seconds |-> 0,
     grid_image_url |-> NONE,
     avg_fps |-> NOATTR, best_ping |-> NOATTR]

\* Game.unique_id, and the uid save_games_to_db builds
UniqueId(g) == g.source \o "|" \o g.name

\* the (name, source) key of existing_data
Key(g) == <<g.name, g.source>>

\* ------------------------------------------------------------------- state
VARIABLES
    heap,           \* the Game objects ever created, by reference
    all_games,      \* app.all_games: a list of references into heap
    db,             \* the rows of table games, in rowid order
    now,            \* the last reading of time.time(), in seconds
    api_key,        \* config['steamgriddb_api_key']
    scanned_games,  \* what find_all_games returned to the last rescan
    pipelines,      \* fetch_missing_covers threads still running
    last_emit,      \* the last socketio.emit
    op,             \* the operation that made the last step
    ops,            \* operations so far
    trk,            \* the PlaytimeTracker threads
    scn,            \* the scan_library_background threads
    procs,          \* the processes of the machine: unborn, alive or exited
    pip,            \* the fetch_missing_covers threads
    wat,            \* the file watcher's handler and what it has seen and emitted
    web             \* the thread of an /api/update_game or /api/remove_manual_game request

vars == <<heap, all_games, db, now, api_key, scanned_games, pipelines,
          last_emit, op, ops, trk, scn, procs, pip, wat, web>>

\* the threads' own state and the processes
threads == <<trk, scn, procs, pip, wat, web>>

\* the catalog by value
Catalog == [i \in 1..Len(all_games) |-> heap[all_games[i]]]

\* ------------------------------------------------------------ the universe
Names == {"A"}
ManualSource == "Other Games"
Sources == {"Steam", ManualSource}

\* Title A as the Steam probe finds it in one library, and in another
SteamA1 == NewGame("A", "Steam", "70", "lib1/A")
SteamA2 == NewGame("A", "Steam", "70", "lib2/A")
\* Title A as manual_games.json lists it
ManualA == NewGame("A", ManualSource, NONE, "manual/A.exe")

\* a probe's future: it raised, or it returned a list
Raised == [ok |-> FALSE, games |-> <<>>]
Returned(gs) == [ok |-> TRUE, games |-> gs]

SteamOutcomes ==
    {Raised, Returned(<<>>), Returned(<<SteamA1>>), Returned(<<SteamA2>>),
     Returned(<<SteamA1, SteamA2>>)}
\* the other probes catch every exception themselves and return what they have
EpicOutcomes == {Returned(<<>>)}
EaOutcomes == {Returned(<<>>)}
ManualOutcomes == {Returned(<<>>), Returned(<<ManualA>>)}

ScanInputs ==
    [steam : SteamOutcomes, epic : EpicOutcomes, ea : EaOutcomes, manual : ManualOutcomes]

\* the probes whose future raised
FailedProbes(res) == {p \in {"steam", "epic", "ea", "manual"} : ~res[p].ok}

\* a find_all_games that gives up on the whole scan when a future raised
FindAllGamesOrNothing(res) ==
    IF FailedProbes(res) # {} THEN <<>>
    ELSE res.steam.games \o res.epic.games \o res.ea.games \o res.manual.games

\* ---------------------------------------------------------- game_scanner.py
\* find_all_games: the four futures in order; a future that raised adds nothing
FindAllGames(res) ==
    (IF res.steam.ok THEN res.steam.games ELSE <<>>)
    \o (IF res.epic.ok THEN res.epic.games ELSE <<>>)
    \o (IF res.ea.ok THEN res.ea.games ELSE <<>>)
    \o (IF res.manual.ok THEN res.manual.games ELSE <<>>)

\* the probe that builds the Games of a source
ProbeOf(source) ==
    CASE source = "Steam" -> "steam"
      [] source = "Epic Games" -> "epic"
      [] source = "EA" -> "ea"
      [] OTHER -> "manual"

\* Title A as the Epic and EA probes build it
EpicA == NewGame("A", "Epic Games", "appA", "epic/A")
EaA == NewGame("A", "EA", "keyA", "Unknown")

\* what the four futures of find_all_games can hand to result(): a future
\* raises whatever its probe lets through, whichever probe it is
FutureOutcomes ==
    [steam : SteamOutcomes,
     epic : {Raised, Returned(<<>>), Returned(<<EpicA>>)},
     ea : {Raised, Returned(<<>>), Returned(<<EaA>>)},
     manual : {Raised, Returned(<<>>), Returned(<<ManualA>>)}]

\* ------------------------------- game_scanner.py: _is_valid_game_folder
\* threshold = 50 * 1024 * 1024
Threshold == 50 * 1024 * 1024

\* what os.path.getsize gives for a file: its size, or (below zero) an OSError
Unreadable == 0 - 1
FileSizes == {1, Threshold - 1, Unreadable}

\* the sequences over S of length up to n
SeqsUpTo(S, n) == UNION {[1..k -> S] : k \in 0..n}

\* the directories os.walk visits under a candidate, in its order, with
\* their files: the folder itself, its installer backup, its bin folder
WalkRoots == <<"games/A", "games/A/__Installer", "games/A/bin">>

\* root.lower()
Lower(root) == IF root = "games/A/__Installer" THEN "games/a/__installer"
               ELSE IF root = "games/A" THEN "games/a"
               ELSE "games/a/bin"

\* "__installer" in root.lower()
IsInstallerRoot(root) == Lower(root) = "games/a/__installer"

\* the folder trees a candidate path can hold
Trees ==
    { <<top, backup, bin>> : top \in SeqsUpTo(FileSizes, MaxFiles),
                             backup \in SeqsUpTo(FileSizes, 1),
                             bin \in SeqsUpTo(FileSizes, MaxFiles) }

\* a path that does not exist has no tree
NoTree == <<>>

\* the candidates: an empty path, None, a path that is gone, a folder
Candidates ==
    {[folder_path |-> p, tree |-> NoTree] : p \in {"", NONE, "games/gone"}}
    \cup {[folder_path |-> "games/A", tree |-> t] : t \in Trees}

\* the files of a tree in walk order, each with its root
RECURSIVE WalkFiles(_, _)
WalkFiles(tree, r) ==
    IF r > Len(tree) THEN <<>>
    ELSE [k \in 1..Len(tree[r]) |-> [root |-> WalkRoots[r], size |-> tree[r][k]]]
         \o WalkFiles(tree, r + 1)

\* a threshold test that lets the exact threshold through
ReachesThreshold(total_size) == total_size >= Threshold

\* total_size > threshold
ExceedsThreshold(total_size) == total_size > Threshold

\* the loops of _is_valid_game_folder over the files left, from total_size
RECURSIVE WalkSum(_, _)
WalkSum(files, total_size) ==
    IF files = <<>> THEN FALSE
    ELSE LET f == Head(files)
         IN IF IsInstallerRoot(f.root) THEN WalkSum(Tail(files), total_size)
            ELSE IF f.size = Unreadable THEN FALSE
            ELSE IF ExceedsThreshold(total_size + f.size) THEN TRUE
            ELSE WalkSum(Tail(files), total_size + f.size)

\* _is_valid_game_folder
IsValidGameFolder(c) ==
    IF ~Truthy(c.folder_path) \/ c.tree = NoTree THEN FALSE
    ELSE WalkSum(WalkFiles(c.tree, 1), 0)

\* -------------------------------------- game_scanner.py: _find_ea_games
\* names are sequences of characters here, for _clean_name to work on
\* name.lower(), one character
LowerChar(c) ==
    CASE c = "S" -> "s" [] c = "K" -> "k" [] c = "F" -> "f" [] c = "M" -> "m"
      [] OTHER -> c

\* _clean_name: lower(), then the trademark signs, colons and spaces go
CleanName(name) ==
    SelectSeq([i \in 1..Len(name) |-> LowerChar(name[i])],
              LAMBDA c : c \notin {"TM", "(R)", ":", " "})

\* `a in b` of two strings
IsSubstring(a, b) ==
    \E k \in 0..(Len(b) - Len(a)) : \A i \in 1..Len(a) : b[k + i] = a[i]

\* display names: none, 'Sk8(TM)', 'F1'
NoName == <<>>
Sk8Name == <<"S", "k", "8", "TM">>
F1Name == <<"F", "1">>
\* QueryValueEx(game_key, "DisplayName") raised
NoValue == <<"OSError">>

\* the entries of the EA registry keys: launch id and display name
EaEntries == {[launch_id |-> "key1", name |-> n] : n \in {NoName, Sk8Name, F1Name, NoValue}}

\* the entries of the Uninstall keys: DisplayName and InstallLocation
UninstallEntries ==
    {[name |-> <<"S", "K", " ", "8">>, path |-> "games/A"],
     [name |-> <<"S", "K", " ", "8">>, path |-> "games/gone"],
     [name |-> <<"S", "K", " ", "8">>, path |-> ""],
     [name |-> NoName, path |-> "games/A"]}

\* the files of the Start Menu folders: name and extension
ShortcutFiles ==
    {[stem |-> <<"S", "k", "8">>, ext |-> ".lnk"],
     [stem |-> <<"F", "1", " ", "M">>, ext |-> ".lnk"],
     [stem |-> <<"F", "1">>, ext |-> ".txt"]}

\* the folder games/A with more than 50 MB, and with less
BigTree == <<<<Threshold - 1, 1>>, <<>>, <<1>>>>
SmallTree == <<<<1>>, <<Threshold - 1>>, <<>>>>

\* what the machine holds when the EA probe runs
EaMachines ==
    [uninstall : SeqsUpTo(UninstallEntries, 2),
     tree : {BigTree, SmallTree},
     start_menu : SUBSET ShortcutFiles]

\* uninstall_map: clean name -> path, of the entries with a name and a path,
\* the last one wins
UninstallMap(uninstall) ==
    LET kept == SelectSeq(uninstall, LAMBDA e : e.name # <<>> /\ Truthy(e.path))
    IN [k \in {CleanName(kept[i].name) : i \in 1..Len(kept)} |->
          kept[CHOOSE i \in 1..Len(kept) :
                  /\ CleanName(kept[i].name) = k
                  /\ \A j \in 1..Len(kept) : CleanName(kept[j].name) = k => j <= i].path]

\* the folder behind a path of the machine
FolderAt(path, m) ==
    [folder_path |-> path, tree |-> IF path = "games/A" THEN m.tree ELSE NoTree]

\* _has_start_menu_shortcut
HasStartMenuShortcut(game_name, m) ==
    LET target == CleanName(game_name)
    IN \E f \in m.start_menu :
          /\ f.ext = ".lnk"
          /\ IsSubstring(target, CleanName(f.stem)) \/ IsSubstring(CleanName(f.stem), target)

\* a validation that falls back to the Start Menu when the folder fails
ShouldAddEitherPath(name, m) ==
    LET uninstall_map == UninstallMap(m.uninstall)
        clean_name == CleanName(name)
    IN \/ /\ clean_name \in DOMAIN uninstall_map
          /\ IsValidGameFolder(FolderAt(uninstall_map[clean_name], m))
       \/ HasStartMenuShortcut(name, m)

\* should_add of _find_ea_games: check A, else check B
ShouldAdd(name, m) ==
    LET uninstall_map == UninstallMap(m.uninstall)
        clean_name == CleanName(name)
    IN IF clean_name \in DOMAIN uninstall_map
       THEN IsValidGameFolder(FolderAt(uninstall_map[clean_name], m))
       ELSE HasStartMenuShortcut(name, m)

\* the Games one registry entry adds to the list of _find_ea_games
EaEntryGames(e, m) ==
    IF e.name = NoValue THEN <<>>
    ELSE IF e.name # <<>> /\ ShouldAdd(e.name, m)
    THEN LET uninstall_map == UninstallMap(m.uninstall)
             clean_name == CleanName(e.name)
         IN <<[name |-> e.name, source |-> "EA", launch_id |-> e.launch_id,
               install_path |-> IF clean_name \in DOMAIN uninstall_map
                                THEN uninstall_map[clean_name] ELSE "Unknown"]>>
    ELSE <<>>

\* ------------------------------------------------------------ app.py: store
\* the row save_games_to_db writes for a Game
ToRow(g) ==
    [id |-> UniqueId(g), name |-> g.name, source |-> g.source,
     launch_id |-> PyStr(g.launch_id), install_path |-> g.install_path,
     favorite |-> g.favorite, hidden |-> g.hidden,
     last_played |-> g.last_played, playtime_seconds |-> g.playtime_seconds,
     grid_image_url |-> g.grid_image_url,
     avg_fps |-> GetAttr(g.avg_fps), best_ping |-> GetAttr(g.best_ping)]

\* the Game load_games_from_db builds from a row
FromRow(r) ==
    [name |-> r.name, source |-> r.source, launch_id |-> r.launch_id,
     install_path |-> r.install_path,
     favorite |-> r.favorite, hidden |-> r.hidden,
     last_played |-> r.last_played, playtime_seconds |-> r.playtime_seconds,
     grid_image_url |-> r.grid_image_url,
     avg_fps |-> IF Truthy(r.avg_fps) THEN r.avg_fps ELSE "",
     best_ping |-> IF Truthy(r.best_ping) THEN r.best_ping ELSE ""]

\* INSERT OR REPLACE: the row of that id goes, the new row gets a new rowid
Upsert(store, row) == SelectSeq(store, LAMBDA r : r.id # row.id) \o <<row>>

RECURSIVE SaveRows(_, _)
SaveRows(store, games) ==
    IF games = <<>> THEN store
    ELSE SaveRows(Upsert(store, ToRow(Head(games))), Tail(games))

\* save_games_to_db: every Game of the list is upserted and the transaction
\* committed; an exception is logged and nothing is committed
SaveGamesToDb(store, games, ok) == IF ok THEN SaveRows(store, games) ELSE store

\* load_games_from_db: one Game per row, in rowid order
LoadGamesFromDb(store) == [i \in 1..Len(store) |-> FromRow(store[i])]

\* DELETE FROM games WHERE name = ? AND source = 'Other Games'
DeleteManual(store, name) ==
    SelectSeq(store, LAMBDA r : ~(r.name = name /\ r.source = ManualSource))

\* -------------------------------------------------------- app.py: reconcile
\* existing_data = {(g.name, g.source): g for g in all_games}: the last wins
ExistingData(games) ==
    [k \in {Key(games[i]) : i \in 1..Len(games)} |->
        games[CHOOSE i \in 1..Len(games) :
                 /\ Key(games[i]) = k
                 /\ \A j \in 1..Len(games) : Key(games[j]) = k => j <= i]]

\* a carry-forward that takes the old entry's location as well
CarryForwardLocation(s_game, e_game) ==
    [e_game EXCEPT !.grid_image_url = IF Truthy(e_game.grid_image_url)
                                      THEN e_game.grid_image_url
                                      ELSE s_game.grid_image_url]

\* the body of `if key in existing_data`
CarryForward(s_game, e_game) ==
    [s_game EXCEPT !.favorite = e_game.favorite,
                   !.hidden = e_game.hidden,
                   !.playtime_seconds = e_game.playtime_seconds,
                   !.last_played = e_game.last_played,
                   !.grid_image_url = IF Truthy(e_game.grid_image_url)
                                      THEN e_game.grid_image_url ELSE @]

\* a reconcile that appends the scan's Titles to the list it had
ReconcileKeepOld(scanned, existing) ==
    LET existing_data == ExistingData(existing)
    IN existing \o [i \in 1..Len(scanned) |->
                      IF Key(scanned[i]) \in DOMAIN existing_data
                      THEN CarryForward(scanned[i], existing_data[Key(scanned[i])])
                      ELSE scanned[i]]

\* updated_list of scan_library_background
Reconcile(scanned, existing) ==
    LET existing_data == ExistingData(existing)
    IN [i \in 1..Len(scanned) |->
          IF Key(scanned[i]) \in DOMAIN existing_data
          THEN CarryForward(scanned[i], existing_data[Key(scanned[i])])
          ELSE scanned[i]]

\* the unset Titles: not g.grid_image_url or g.grid_image_url == ""
Unset(g) == ~Truthy(g.grid_image_url)

\* a start condition that does not look at the key
StartsPipelineKeyless(key, games) ==
    Cardinality({i \in 1..Len(games) : Unset(games[i])}) > 0

\* `if api_key:` and `if missing_count > 0:` at the end of the rescan
StartsPipeline(key, games) ==
    /\ Truthy(key)
    /\ Cardinality({i \in 1..Len(games) : Unset(games[i])}) > 0

\* ------------------------------------------------------------- app.py: heap
\* an object nothing refers to any more
Freed == NewGame("", "", NONE, "")

\* the heap with every object outside live freed
Sweep(h, live) == [i \in 1..Len(h) |-> IF i \in live THEN h[i] ELSE Freed]

\* references of n objects allocated after the heap h
NewRefs(h, n) == [i \in 1..n |-> Len(h) + i]

\* ------------------------------------------------------ app.py: cover fetch
\* what the remote service answers to one Title's fetch: the direct lookup by
\* Steam id, then the name search with its grid lookup; a hit carries a
\* non-empty url
FetchOutcomes ==
    { [direct |-> "hit", search |-> "none", grid |-> "none"],
      [direct |-> "none", search |-> "hit", grid |-> "hit"],
      [direct |-> "none", search |-> "none", grid |-> "none"],
      [direct |-> "error", search |-> "hit", grid |-> "hit"] }

\* what one request can come back with: data, an empty data list, a status
\* that is not OK, or a timeout or another exception
Answers == {"hit", "empty", "not ok", "error"}

\* the answers of the three requests of one Title's fetch, whatever they are
RemoteAnswers == [direct : Answers, search : Answers, grid : Answers]

DirectUrl(g) == "grids/steam/" \o g.launch_id
SearchUrl(g) == "grids/game/" \o g.name

\* a fetch that leaves the cover as it was when nothing was found
GridResultNoSentinel(g, out) ==
    IF g.source = "Steam" /\ out.direct = "hit" THEN DirectUrl(g)
    ELSE IF ~(g.source = "Steam" /\ out.direct = "error")
            /\ out.search = "hit" /\ out.grid = "hit" THEN SearchUrl(g)
    ELSE g.grid_image_url

\* _fetch_grid_image past its first test: the value the requests end with
GridResult(g, out) ==
    LET raised == g.source = "Steam" /\ out.direct = "error"
        direct == g.source = "Steam" /\ out.direct = "hit"
        search == ~raised /\ ~direct /\ out.search = "hit" /\ out.grid = "hit"
    IN IF direct THEN DirectUrl(g)
       ELSE IF search THEN SearchUrl(g)
       ELSE "MISSING"

\* requests that start with the name search whatever the source
RequestsSearchFirst(g, out) ==
    IF Truthy(g.grid_image_url) THEN <<>>
    ELSE <<"search">> \o (IF out.search = "hit" THEN <<"grid">> ELSE <<>>)

\* _fetch_grid_image: the requests it sends, in order
RequestsSent(g, out) ==
    LET steam == g.source = "Steam"
        raised == steam /\ out.direct = "error"
        found == steam /\ out.direct = "hit"
        searched == ~raised /\ ~found
    IN IF Truthy(g.grid_image_url) THEN <<>>
       ELSE (IF steam THEN <<"direct">> ELSE <<>>)
            \o (IF searched THEN <<"search">> ELSE <<>>)
            \o (IF searched /\ out.search = "hit" THEN <<"grid">> ELSE <<>>)

\* _fetch_grid_image: the Game after the call
FetchGridImage(g, out) ==
    IF Truthy(g.grid_image_url) THEN g
    ELSE [g EXCEPT !.grid_image_url = GridResult(g, out)]

\* queue = [g for g in all_games if unset], as positions of all_games
Queue(games) == SelectSeq([i \in 1..Len(games) |-> i], LAMBDA i : Unset(games[i]))

\* a batch that takes the whole queue
BatchWhole(queue) == queue

\* batch = queue[:5]
Batch(queue) == SubSeq(queue, 1, IF Len(queue) < BatchSize THEN Len(queue) ELSE BatchSize)

\* ---------------------------------------------------- app.py: update_game
\* the update_data of the requests
UpdateRequests ==
    { [favorite |-> TRUE],
      [hidden |-> TRUE],
      [avg_fps |-> "60", best_ping |-> "20"] }

\* the first Title with that name and source, 0 if there is none
FirstMatch(games, name, source) ==
    IF \E i \in 1..Len(games) : games[i].name = name /\ games[i].source = source
    THEN CHOOSE i \in 1..Len(games) :
            /\ games[i].name = name /\ games[i].source = source
            /\ \A j \in 1..(i - 1) : ~(games[j].name = name /\ games[j].source = source)
    ELSE 0

\* the four `if ... in update_data` assignments
ApplyUpdate(g, data) ==
    [g EXCEPT !.favorite = IF "favorite" \in DOMAIN data THEN data.favorite ELSE @,
              !.hidden = IF "hidden" \in DOMAIN data THEN data.hidden ELSE @,
              !.avg_fps = IF "avg_fps" \in DOMAIN data THEN data.avg_fps ELSE @,
              !.best_ping = IF "best_ping" \in DOMAIN data THEN data.best_ping ELSE @]

\* ------------------------------------------- app.py: PlaytimeTracker commit
\* the durations a session can have when its polls are not followed
Durations == {360}
\* the clock readings of a commit whose polls are not followed
CommitTimes == {10}

\* game.playtime_seconds = (game.playtime_seconds or 0) + duration, the sum
NewPlaytime(g, duration) == g.playtime_seconds + duration

\* the two assignments of update_local_playtime
SetPlaytime(g, sum, t) == [g EXCEPT !.playtime_seconds = sum, !.last_played = <<t>>]

\* ------------------------------------------------------------ the threads
Trackers == {"t1", "t2"}
ScanThreads == {"s1"}

\* a PlaytimeTracker that was not started
IdleTracker ==
    [pc |-> "idle", game_name |-> "", source |-> "", install_path |-> "",
     start_time |-> 0, attempts |-> 0, game_processes |-> {},
     detected_at |-> <<>>, ended_at |-> <<>>, duration |-> 0,
     game |-> 0, sum |-> 0, wrote |-> FALSE, saved |-> FALSE]

\* a rescan thread that was not started
IdleScan ==
    [pc |-> "idle", scanned |-> <<>>, existing_data |-> <<>>, i |-> 0, saved |-> FALSE]

\* the fetch_missing_covers threads
Pipes == {"p1", "p2"}

\* a fetch_missing_covers thread that was not started: its batch, where each
\* _fetch_grid_image of the batch is, and the Titles it sent requests for
IdlePipe ==
    [pc |-> "idle", batch |-> <<>>, stage |-> <<>>, requested |-> <<>>]

\* a request to /api/update_game or /api/remove_manual_game that has not arrived
IdleWeb ==
    [pc |-> "idle", name |-> "", source |-> "", data |-> <<>>, status |-> "", saved |-> FALSE]

\* the objects the threads hold references to
ThreadRefs(t, s, pp) ==
    UNION {Range(s[x].scanned) \cup Range(s[x].existing_data) : x \in ScanThreads}
    \cup {t[x].game : x \in Trackers}
    \cup UNION {Range(pp[x].batch) : x \in Pipes}

\* what /api/launch is asked to start
LaunchRequests ==
    { [name |-> "A", source |-> "Steam", install_path |-> "lib1/A/"] }

\* the processes of the machine: the game, a helper it spawns, a stranger
Pids == {"game", "child", "other"}
\* and with them a program of the install folder that the game does not spawn
DetectPids == Pids \cup {"patcher"}
ExeOf(p) ==
    CASE p = "game" -> "lib1/A/game.exe"
      [] p = "child" -> "tools/crashreport.exe"
      [] p = "patcher" -> "lib1/A/patcher.exe"
      [] OTHER -> "apps/editor.exe"
ParentOf(p) == IF p = "child" THEN "game" ELSE NONE

\* a path as its characters, separators apart, for startswith
PathChars(path) ==
    CASE path = "lib1/A" -> <<"lib1", "/", "A">>
      [] path = "lib1/A/" -> <<"lib1", "/", "A", "/">>
      [] path = "lib1/A/game.exe" -> <<"lib1", "/", "A", "/", "game.exe">>
      [] path = "lib1/A/patcher.exe" -> <<"lib1", "/", "A", "/", "patcher.exe">>
      [] path = "tools/crashreport.exe" -> <<"tools", "/", "crashreport.exe">>
      [] path = "apps/editor.exe" -> <<"apps", "/", "editor.exe">>
      [] OTHER -> <<path>>

\* os.path.normpath: a trailing separator goes
NormPath(path) == IF path = "lib1/A/" THEN "lib1/A" ELSE path

\* os.path.normpath(p_exe).startswith(self.install_path)
StartsWith(exe, install_path) ==
    LET e == PathChars(NormPath(exe))
        q == PathChars(install_path)
    IN Len(q) <= Len(e) /\ SubSeq(e, 1, Len(q)) = q

\* process.children(recursive=True) of the processes of ps, among those alive
RECURSIVE Descendants(_, _)
Descendants(ps, alive) ==
    LET kids == {c \in alive : ParentOf(c) \in ps} \ ps
    IN IF kids = {} THEN {} ELSE kids \cup Descendants(ps \cup kids, alive)

\* a pass of process_iter that claims no process
DetectedNobody(install_path, alive) == {}

\* the tracked set detect_game_process builds in one pass of process_iter
Detected(install_path, alive) ==
    LET claimed == {p \in alive : install_path # "" /\ StartsWith(ExeOf(p), install_path)}
    IN claimed \cup Descendants(claimed, alive)

\* a liveness filter that takes in what the tracked processes spawned since
StillRunningOrSpawned(ps, pr) ==
    {p \in DOMAIN pr : pr[p] = "alive" /\ (p \in ps \/ ParentOf(p) \in ps)}

\* a liveness filter that forgets the spawned processes
StillRunningParents(ps, pr) == {p \in ps : pr[p] = "alive" /\ ParentOf(p) = NONE}

\* {p for p in self.game_processes if p.is_running()}
StillRunning(ps, pr) == {p \in ps : pr[p] = "alive"}

\* ------------------------------------------------------------- watcher.py
\* GameLibraryEventHandler.__init__, with nothing seen and nothing emitted
NewHandler == [last_event_time |-> 0, events |-> <<>>, signals |-> <<>>]

\* time.time() when the program starts, in ticks
Epoch == 1000 * TicksPerSecond

\* the file names of the events: manifests, data files and others
Filenames ==
    {"appmanifest_70.acf", "appmanifest_70.tmp", "A.item", "installerdata.xml",
     "manual_games.json", "config.json"}

\* filename.startswith("appmanifest_")
IsManifestName(f) == f \in {"appmanifest_70.acf", "appmanifest_70.tmp"}
\* filename.endswith(".acf"), filename.endswith(".item")
Extension(f) ==
    CASE f = "appmanifest_70.acf" -> ".acf"
      [] f = "appmanifest_70.tmp" -> ".tmp"
      [] f = "A.item" -> ".item"
      [] f = "installerdata.xml" -> ".xml"
      [] OTHER -> ".json"

\* a whitelist that lets every .json file through
IsGameFileOrJson(f) ==
    \/ IsManifestName(f) /\ Extension(f) = ".acf"
    \/ Extension(f) \in {".item", ".json"}
    \/ f = "installerdata.xml"

\* the whitelist of on_any_event
IsGameFile(f) ==
    \/ IsManifestName(f) /\ Extension(f) = ".acf"
    \/ Extension(f) = ".item"
    \/ f = "installerdata.xml"
    \/ f = "manual_games.json"

\* a debounce that also drops the event that comes a full period later
DroppedUpToPeriod(current_time, last_event_time) ==
    current_time - last_event_time <= DebouncePeriod * TicksPerSecond

\* current_time - self.last_event_time < self.debounce_period
Dropped(current_time, last_event_time) ==
    current_time - last_event_time < DebouncePeriod * TicksPerSecond

\* the ticks between an event and the one before it: none to three seconds
Gaps == 0..(3 * TicksPerSecond)

\* ---------------------------------------------------------------- startup
\* the store a fresh install starts with
FreshStore == <<>>
\* the store of an earlier run that found Title A
InstalledStore == <<ToRow(SteamA1)>>

\* after load_games_from_db at startup, no thread started
Startup(store) ==
    /\ db = store
    /\ heap = LoadGamesFromDb(store)
    /\ all_games = NewRefs(<<>>, Len(store))
    /\ now = 0
    /\ api_key \in {"", "key"}
    /\ scanned_games = <<>>
    /\ pipelines = 0
    /\ last_emit = NONE
    /\ op = [kind |-> "start"]
    /\ ops = 0
    /\ scn = [s \in ScanThreads |-> IdleScan]
    /\ procs = [p \in Pids |-> "unborn"]
    /\ pip = [p \in Pipes |-> IdlePipe]
    /\ wat = NewHandler
    /\ web = IdleWeb

Init ==
    /\ Startup(FreshStore)
    /\ trk = [t \in Trackers |-> IdleTracker]

\* a main that never starts the scan
StartsScanNever(games) == FALSE

\* `if len(all_games) == 0:` of __main__
StartsScan(games) == Len(games) = 0

\* ------------------------------------------------ operations, each one step
\* an update_local_playtime that saves and emits whether it found the Title or
\* not
UpdateLocalPlaytimeAlways(name, source, duration, t, ok) ==
    LET i == FirstMatch(Catalog, name, source)
    IN /\ now' = t
       /\ heap' = IF i = 0 THEN heap
                  ELSE [heap EXCEPT ![all_games[i]] =
                           SetPlaytime(@, NewPlaytime(@, duration), t)]
       /\ db' = SaveGamesToDb(db, [j \in 1..Len(all_games) |-> heap'[all_games[j]]], ok)
       /\ last_emit' = "game_updated"

\* update_local_playtime as one step: the first match gets the duration, the
\* clock reading t, and the list is saved
UpdateLocalPlaytime(name, source, duration, t, ok) ==
    LET i == FirstMatch(Catalog, name, source)
    IN IF i = 0
       THEN UNCHANGED <<heap, db, now, last_emit>>
       ELSE /\ now' = t
            /\ heap' = [heap EXCEPT ![all_games[i]] =
                           SetPlaytime(@, NewPlaytime(@, duration), t)]
            /\ db' = SaveGamesToDb(db, [j \in 1..Len(all_games) |-> heap'[all_games[j]]], ok)
            /\ last_emit' = "game_updated"

\* scan_library_background, from load_config to the start of the pipeline
ScanEffects(res, ok) ==
    LET found == FindAllGames(res)
        updated_list == Reconcile(found, Catalog)
        refs == NewRefs(heap, Len(updated_list))
    IN /\ scanned_games' = found
       /\ heap' = Sweep(heap \o updated_list, Range(refs) \cup ThreadRefs(trk, scn, pip))
       /\ all_games' = refs
       /\ db' = SaveGamesToDb(db, updated_list, ok)
       /\ last_emit' = "Scan complete"
       /\ pipelines' = IF StartsPipeline(api_key, updated_list)
                       THEN pipelines + 1 ELSE pipelines
       /\ op' = [kind |-> "scan", saved |-> ok, failed |-> FailedProbes(res)]

\* a rescan from its request to its end
ScanLibrary ==
    \E res \in ScanInputs, ok \in BOOLEAN :
        /\ ops < MaxOps
        /\ ops' = ops + 1
        /\ ScanEffects(res, ok)
        /\ UNCHANGED <<now, api_key, threads>>

\* update_game
UpdateGame ==
    \E name \in Names, source \in Sources, data \in UpdateRequests, ok \in BOOLEAN :
        LET i == FirstMatch(Catalog, name, source)
        IN /\ ops < MaxOps
           /\ ops' = ops + 1
           /\ IF i = 0
              THEN /\ op' = [kind |-> "update", name |-> name, source |-> source,
                             data |-> data, status |-> "error", saved |-> FALSE]
                   /\ UNCHANGED <<heap, db>>
              ELSE /\ heap' = [heap EXCEPT ![all_games[i]] = ApplyUpdate(@, data)]
                   /\ db' = SaveGamesToDb(db, [j \in 1..Len(all_games) |-> heap'[all_games[j]]], ok)
                   /\ op' = [kind |-> "update", name |-> name, source |-> source,
                             data |-> data, status |-> "success", saved |-> ok]
           /\ UNCHANGED <<all_games, now, api_key, scanned_games, pipelines, last_emit, threads>>

\* a PlaytimeTracker whose polls are not followed reaches update_local_playtime
TrackerCommit ==
    \E name \in Names, source \in Sources,
       duration \in Durations, t \in CommitTimes, ok \in BOOLEAN :
        /\ ops < MaxOps
        /\ ops' = ops + 1
        /\ t >= now
        /\ UpdateLocalPlaytime(name, source, duration, t, ok)
        /\ op' = [kind |-> "commit", name |-> name, source |-> source,
                  duration |-> duration,
                  found |-> FirstMatch(Catalog, name, source) # 0, saved |-> ok,
                  payload |-> IF FirstMatch(Catalog, name, source) = 0 THEN <<>>
                              ELSE <<heap'[all_games[FirstMatch(Catalog, name, source)]]>>]
        /\ UNCHANGED <<all_games, api_key, scanned_games, pipelines, threads>>

\* one turn of the loop of fetch_missing_covers
FetchStep(outcomes, traced) ==
    /\ pipelines > 0
    /\ LET queue == Queue(Catalog)
           batch == Batch(queue)
       IN IF queue = <<>>
          THEN /\ pipelines' = pipelines - 1
               /\ op' = [kind |-> "fetch", batch |-> <<>>, saved |-> FALSE]
               /\ UNCHANGED <<heap, db, last_emit, ops>>
          ELSE \E outs \in [1..Len(batch) -> outcomes], ok \in BOOLEAN :
               /\ ops < MaxOps
               /\ ops' = ops + 1
               /\ heap' = [r \in 1..Len(heap) |->
                             IF \E k \in 1..Len(batch) : all_games[batch[k]] = r
                             THEN FetchGridImage(heap[r],
                                     outs[CHOOSE k \in 1..Len(batch) : all_games[batch[k]] = r])
                             ELSE heap[r]]
               /\ db' = SaveGamesToDb(db, [j \in 1..Len(all_games) |-> heap'[all_games[j]]], ok)
               /\ last_emit' = "Covers updated"
               /\ op' = IF traced
                        THEN [kind |-> "fetch", batch |-> batch, saved |-> ok, outs |-> outs]
                        ELSE [kind |-> "fetch", batch |-> batch, saved |-> ok]
               /\ UNCHANGED pipelines
    /\ UNCHANGED <<all_games, now, api_key, scanned_games, threads>>

FetchBatch == FetchStep(FetchOutcomes, FALSE)

\* remove_manual_game
RemoveManualGame ==
    \E name \in Names :
        LET kept == SelectSeq(all_games,
                        LAMBDA r : ~(heap[r].name = name /\ heap[r].source = ManualSource))
        IN /\ ops < MaxOps
           /\ ops' = ops + 1
           /\ db' = DeleteManual(db, name)
           /\ all_games' = kept
           /\ heap' = Sweep(heap, Range(kept) \cup ThreadRefs(trk, scn, pip))
           /\ op' = [kind |-> "remove", name |-> name]
           /\ UNCHANGED <<now, api_key, scanned_games, pipelines, last_emit, threads>>

Next ==
    \/ ScanLibrary
    \/ UpdateGame
    \/ TrackerCommit
    \/ FetchBatch
    \/ RemoveManualGame

Spec == Init /\ [][Next]_vars

\* --------------------------------------- app.py: PlaytimeTracker, by polls
\* time.sleep(5) returns after five seconds or a tick later
SleepTicks == {PollInterval * TicksPerSecond, PollInterval * TicksPerSecond + 1}

\* the processes psutil lists
Alive == {p \in DOMAIN procs : procs[p] = "alive"}

\* launch_game: the command is started and, with an install path, a tracker;
\* the tracker's run() reads start_time before it looks for the process
Launch ==
    \E t \in Trackers, req \in LaunchRequests :
        /\ trk[t].pc = "idle"
        /\ Cardinality({x \in Trackers : trk[x].pc # "idle"}) < MaxLaunches
        /\ Truthy(req.install_path)
        /\ trk' = [trk EXCEPT ![t] =
                     [@ EXCEPT !.pc = "armed",
                               !.game_name = req.name,
                               !.source = req.source,
                               !.install_path = NormPath(req.install_path),
                               !.start_time = now]]
        /\ op' = [kind |-> "launch", name |-> req.name, source |-> req.source]
        /\ UNCHANGED <<heap, all_games, db, now, api_key, scanned_games, pipelines,
                       last_emit, ops, scn, procs, pip, wat, web>>

\* one turn of the loop of detect_game_process: sleep, then one process_iter
DetectPoll ==
    \E t \in Trackers, sleep \in SleepTicks :
        LET found == Detected(trk[t].install_path, Alive)
            attempts == trk[t].attempts + 1
        IN /\ trk[t].pc = "armed"
           /\ now + sleep <= MaxTime
           /\ now' = now + sleep
           /\ trk' = [trk EXCEPT ![t] =
                        [@ EXCEPT !.attempts = attempts,
                                  !.game_processes = found,
                                  !.detected_at = IF found # {} THEN <<now'>> ELSE <<>>,
                                  !.pc = IF found # {} THEN "tracking"
                                         ELSE IF attempts = DetectAttempts THEN "abandoned"
                                         ELSE "armed"]]
           /\ op' = [kind |-> "detect"]
           /\ UNCHANGED <<heap, all_games, db, api_key, scanned_games, pipelines,
                          last_emit, ops, scn, procs, pip, wat, web>>

\* one turn of the loop of run(): sleep, drop the processes that ended, and
\* with none left read the clock for the duration
TrackPoll ==
    \E t \in Trackers, sleep \in SleepTicks :
        LET left == StillRunning(trk[t].game_processes, procs)
        IN /\ trk[t].pc = "tracking"
           /\ now + sleep <= MaxTime
           /\ now' = now + sleep
           /\ trk' = [trk EXCEPT ![t] =
                        IF left # {}
                        THEN [@ EXCEPT !.game_processes = left]
                        ELSE [@ EXCEPT !.game_processes = left,
                                       !.ended_at = <<now'>>,
                                       !.duration = (now' - trk[t].start_time) \div TicksPerSecond,
                                       !.pc = "commit"]]
           /\ op' = [kind |-> "track"]
           /\ UNCHANGED <<heap, all_games, db, api_key, scanned_games, pipelines,
                          last_emit, ops, scn, procs, pip, wat, web>>

\* update_local_playtime of a followed tracker, in one step
CommitPlaytime ==
    \E t \in Trackers, ok \in BOOLEAN :
        /\ trk[t].pc = "commit"
        /\ UpdateLocalPlaytime(trk[t].game_name, trk[t].source, trk[t].duration, now, ok)
        /\ trk' = [trk EXCEPT ![t] =
                     [@ EXCEPT !.pc = "done",
                               !.wrote = FirstMatch(Catalog, trk[t].game_name, trk[t].source) # 0,
                               !.saved = ok /\ FirstMatch(Catalog, trk[t].game_name, trk[t].source) # 0]]
        /\ op' = [kind |-> "commit", name |-> trk[t].game_name, source |-> trk[t].source,
                  duration |-> trk[t].duration,
                  found |-> FirstMatch(Catalog, trk[t].game_name, trk[t].source) # 0,
                  saved |-> ok]
        /\ UNCHANGED <<all_games, api_key, scanned_games, pipelines, ops, scn, procs, pip, wat, web>>

\* the machine starts a process; a helper is spawned by the running game
ProcStart ==
    \E p \in DOMAIN procs :
        /\ procs[p] = "unborn"
        /\ ParentOf(p) # NONE => procs[ParentOf(p)] = "alive"
        /\ procs' = [procs EXCEPT ![p] = "alive"]
        /\ UNCHANGED <<heap, all_games, db, now, api_key, scanned_games, pipelines,
                       last_emit, op, ops, trk, scn, pip, wat, web>>

\* a process ends
ProcExit ==
    \E p \in DOMAIN procs :
        /\ procs[p] = "alive"
        /\ procs' = [procs EXCEPT ![p] = "exited"]
        /\ UNCHANGED <<heap, all_games, db, now, api_key, scanned_games, pipelines,
                       last_emit, op, ops, trk, scn, pip, wat, web>>

InitTrack ==
    /\ Startup(InstalledStore)
    /\ trk = [t \in Trackers |-> IdleTracker]

NextTrack ==
    \/ Launch
    \/ DetectPoll
    \/ TrackPoll
    \/ CommitPlaytime
    \/ ProcStart
    \/ ProcExit

SpecTrack == InitTrack /\ [][NextTrack]_vars

\* the tracker threads are scheduled: a sleep returns, a commit is made
SpecTrackFair ==
    /\ InitTrack
    /\ [][NextTrack]_vars
    /\ WF_vars(TrackPoll)
    /\ WF_vars(CommitPlaytime)

\* ------------------- app.py: PlaytimeTracker, with a late matching process
\* the machine starts a process, and the start is on record
Spawn ==
    \E p \in DOMAIN procs :
        /\ procs[p] = "unborn"
        /\ ParentOf(p) # NONE => procs[ParentOf(p)] = "alive"
        /\ procs' = [procs EXCEPT ![p] = "alive"]
        /\ op' = [kind |-> "spawn", pid |-> p]
        /\ UNCHANGED <<heap, all_games, db, now, api_key, scanned_games, pipelines,
                       last_emit, ops, trk, scn, pip, wat, web>>

\* as InitTrack, without a SteamGridDB key, on a machine that has the patcher too
InitDetect ==
    /\ db = InstalledStore
    /\ heap = LoadGamesFromDb(InstalledStore)
    /\ all_games = NewRefs(<<>>, Len(InstalledStore))
    /\ now = 0
    /\ api_key = ""
    /\ scanned_games = <<>>
    /\ pipelines = 0
    /\ last_emit = NONE
    /\ op = [kind |-> "start"]
    /\ ops = 0
    /\ trk = [t \in Trackers |-> IdleTracker]
    /\ scn = [s \in ScanThreads |-> IdleScan]
    /\ procs = [p \in DetectPids |-> "unborn"]
    /\ pip = [p \in Pipes |-> IdlePipe]
    /\ wat = NewHandler
    /\ web = IdleWeb

NextDetect ==
    \/ Launch
    \/ DetectPoll
    \/ TrackPoll
    \/ CommitPlaytime
    \/ Spawn
    \/ ProcExit

SpecDetect == InitDetect /\ [][NextDetect]_vars

\* ------------------------------------- app.py: the threads, step by step
\* existing_data as the rescan thread holds it: key -> object, the last wins
ExistingRefs(refs, h) ==
    [k \in {Key(h[refs[i]]) : i \in 1..Len(refs)} |->
        refs[CHOOSE i \in 1..Len(refs) :
                /\ Key(h[refs[i]]) = k
                /\ \A j \in 1..Len(refs) : Key(h[refs[j]]) = k => j <= i]]

\* a tracker whose session of `duration` seconds has just ended
EndedTracker(req, duration) ==
    [IdleTracker EXCEPT !.pc = "commit",
                        !.game_name = req.name,
                        !.source = req.source,
                        !.install_path = NormPath(req.install_path),
                        !.duration = duration]

\* update_local_playtime, the loop and the read of the sum: the first match
\* and (game.playtime_seconds or 0) + duration
UpdateFind ==
    \E t \in Trackers :
        LET i == FirstMatch(Catalog, trk[t].game_name, trk[t].source)
        IN /\ trk[t].pc = "commit"
           /\ trk' = [trk EXCEPT ![t] =
                        IF i = 0
                        THEN [@ EXCEPT !.pc = "done"]
                        ELSE [@ EXCEPT !.pc = "write",
                                       !.game = all_games[i],
                                       !.sum = NewPlaytime(Catalog[i], trk[t].duration)]]
           /\ op' = [kind |-> "find"]
           /\ UNCHANGED <<heap, all_games, db, now, api_key, scanned_games, pipelines,
                          last_emit, ops, scn, procs, pip, wat, web>>

\* update_local_playtime, the two stores into the object
UpdateWrite ==
    \E t \in Trackers :
        /\ trk[t].pc = "write"
        /\ heap' = [heap EXCEPT ![trk[t].game] = SetPlaytime(@, trk[t].sum, now)]
        /\ trk' = [trk EXCEPT ![t] = [@ EXCEPT !.pc = "save", !.wrote = TRUE]]
        /\ op' = [kind |-> "write"]
        /\ UNCHANGED <<all_games, db, now, api_key, scanned_games, pipelines,
                       last_emit, ops, scn, procs, pip, wat, web>>

\* update_local_playtime, `if found: save_games_to_db(); socketio.emit(...)`
UpdateSave ==
    \E t \in Trackers, ok \in BOOLEAN :
        /\ trk[t].pc = "save"
        /\ db' = SaveGamesToDb(db, Catalog, ok)
        /\ last_emit' = "game_updated"
        /\ trk' = [trk EXCEPT ![t] = [@ EXCEPT !.pc = "done", !.game = 0, !.saved = ok]]
        /\ heap' = Sweep(heap, Range(all_games) \cup ThreadRefs(trk', scn, pip))
        /\ op' = [kind |-> "save"]
        /\ UNCHANGED <<all_games, now, api_key, scanned_games, pipelines, ops, scn, procs, pip, wat, web>>

\* scan_library_background up to the loop: find_all_games and existing_data
ScanBegin ==
    \E s \in ScanThreads, res \in ScanInputs :
        LET found == FindAllGames(res)
            refs == NewRefs(heap, Len(found))
        IN /\ scn[s].pc = "idle"
           /\ heap' = heap \o found
           /\ scanned_games' = found
           /\ scn' = [scn EXCEPT ![s] =
                        [@ EXCEPT !.pc = "merge",
                                  !.scanned = refs,
                                  !.existing_data = ExistingRefs(all_games, heap),
                                  !.i = 1]]
           /\ op' = [kind |-> "scan begin"]
           /\ UNCHANGED <<all_games, db, now, api_key, pipelines, last_emit, ops, trk, procs, pip, wat, web>>

\* one turn of `for s_game in scanned_games`
ScanMerge ==
    \E s \in ScanThreads :
        LET i == scn[s].i
            s_game == scn[s].scanned[i]
            key == Key(heap[s_game])
        IN /\ scn[s].pc = "merge"
           /\ i <= Len(scn[s].scanned)
           /\ heap' = IF key \in DOMAIN scn[s].existing_data
                      THEN [heap EXCEPT ![s_game] =
                               CarryForward(@, heap[scn[s].existing_data[key]])]
                      ELSE heap
           /\ scn' = [scn EXCEPT ![s] = [@ EXCEPT !.i = i + 1]]
           /\ op' = [kind |-> "scan merge"]
           /\ UNCHANGED <<all_games, db, now, api_key, scanned_games, pipelines,
                          last_emit, ops, trk, procs, pip, wat, web>>

\* all_games = updated_list
ScanReplace ==
    \E s \in ScanThreads :
        /\ scn[s].pc = "merge"
        /\ scn[s].i > Len(scn[s].scanned)
        /\ all_games' = scn[s].scanned
        /\ scn' = [scn EXCEPT ![s] =
                     [@ EXCEPT !.pc = "save", !.scanned = <<>>, !.existing_data = <<>>]]
        /\ heap' = Sweep(heap, Range(all_games') \cup ThreadRefs(trk, scn', pip))
        /\ op' = [kind |-> "scan replace"]
        /\ UNCHANGED <<db, now, api_key, scanned_games, pipelines, last_emit, ops, trk, procs, pip, wat, web>>

\* save_games_to_db(), the emit and the start of the cover pipeline
ScanSave ==
    \E s \in ScanThreads, ok \in BOOLEAN :
        /\ scn[s].pc = "save"
        /\ db' = SaveGamesToDb(db, Catalog, ok)
        /\ last_emit' = "Scan complete"
        /\ pipelines' = IF StartsPipeline(api_key, Catalog)
                        THEN pipelines + 1 ELSE pipelines
        /\ scn' = [scn EXCEPT ![s] = [@ EXCEPT !.pc = "done", !.saved = ok]]
        /\ op' = [kind |-> "scan save", saved |-> ok]
        /\ UNCHANGED <<heap, all_games, now, api_key, scanned_games, ops, trk, procs, pip, wat, web>>

\* the sessions of the trackers have ended, no rescan has started
InitConc ==
    /\ Startup(InstalledStore)
    /\ trk \in [Trackers -> {EndedTracker(req, d) : req \in LaunchRequests, d \in Durations}]

NextConc ==
    \/ UpdateFind
    \/ UpdateWrite
    \/ UpdateSave
    \/ ScanBegin
    \/ ScanMerge
    \/ ScanReplace
    \/ ScanSave

SpecConc == InitConc /\ [][NextConc]_vars

\* ------------------------- app.py: update_game beside a running rescan
\* update_game, the loop: the first match gets the request's fields; with no
\* match the answer is 404
WebUpdate ==
    \E name \in Names, source \in Sources, data \in UpdateRequests :
        LET i == FirstMatch(Catalog, name, source)
        IN /\ web.pc = "idle"
           /\ heap' = IF i = 0 THEN heap
                      ELSE [heap EXCEPT ![all_games[i]] = ApplyUpdate(heap[all_games[i]], data)]
           /\ web' = [web EXCEPT !.pc = IF i = 0 THEN "done" ELSE "save",
                                 !.name = name, !.source = source, !.data = data,
                                 !.status = IF i = 0 THEN "error" ELSE ""]
           /\ op' = [kind |-> "web update"]
           /\ UNCHANGED <<all_games, db, now, api_key, scanned_games, pipelines,
                          last_emit, ops, trk, scn, procs, pip, wat>>

\* update_game, save_games_to_db() of the list all_games names now, and the
\* answer
WebSave ==
    \E ok \in BOOLEAN :
        /\ web.pc = "save"
        /\ db' = SaveGamesToDb(db, Catalog, ok)
        /\ web' = [web EXCEPT !.pc = "done", !.status = "success", !.saved = ok]
        /\ op' = [kind |-> "web save"]
        /\ UNCHANGED <<heap, all_games, now, api_key, scanned_games, pipelines,
                       last_emit, ops, trk, scn, procs, pip, wat>>

\* the store holds Title A, no request has arrived, no rescan has started
InitRace ==
    /\ Startup(InstalledStore)
    /\ trk = [t \in Trackers |-> IdleTracker]

NextRace ==
    \/ WebUpdate
    \/ WebSave
    \/ ScanBegin
    \/ ScanMerge
    \/ ScanReplace
    \/ ScanSave

SpecRace == InitRace /\ [][NextRace]_vars

\* ------------------ app.py: remove_manual_game beside a committing tracker
\* the store of an earlier run that had Title A of Steam and a manual Title A
ManualStore == <<ToRow(SteamA1), ToRow(ManualA)>>

\* remove_manual_game up to conn.commit(): the entry leaves manual_games.json
\* and the rows of that name and source 'Other Games' are deleted; an
\* exception on the way is answered with status error
RemoveDelete ==
    \E name \in Names, ok \in BOOLEAN :
        /\ web.pc = "idle"
        /\ db' = IF ok THEN DeleteManual(db, name) ELSE db
        /\ web' = [web EXCEPT !.pc = IF ok THEN "replace" ELSE "done",
                              !.name = name, !.source = ManualSource,
                              !.status = IF ok THEN "" ELSE "error"]
        /\ op' = [kind |-> "remove delete"]
        /\ UNCHANGED <<heap, all_games, now, api_key, scanned_games, pipelines,
                       last_emit, ops, trk, scn, procs, pip, wat>>

\* remove_manual_game, `all_games = [g for g in all_games if not (...)]` and
\* the answer
RemoveReplace ==
    LET kept == SelectSeq(all_games,
                    LAMBDA r : ~(heap[r].name = web.name /\ heap[r].source = ManualSource))
    IN /\ web.pc = "replace"
       /\ all_games' = kept
       /\ heap' = Sweep(heap, Range(kept) \cup ThreadRefs(trk, scn, pip))
       /\ web' = [web EXCEPT !.pc = "done", !.status = "success"]
       /\ op' = [kind |-> "remove replace"]
       /\ UNCHANGED <<db, now, api_key, scanned_games, pipelines, last_emit, ops,
                      trk, scn, procs, pip, wat>>

\* the sessions of the trackers of Title A of Steam have ended, the removal
\* has not been asked for
InitRemove ==
    /\ Startup(ManualStore)
    /\ trk \in [Trackers -> {EndedTracker(req, d) : req \in LaunchRequests, d \in Durations}]

NextRemove ==
    \/ UpdateFind
    \/ UpdateWrite
    \/ UpdateSave
    \/ RemoveDelete
    \/ RemoveReplace

SpecRemove == InitRemove /\ [][NextRemove]_vars

\* ------------------------------- app.py: the cover pipeline on its own
\* the name of the i-th Title of a large library
TitleName(i) ==
    CASE i = 0 -> "T0" [] i = 1 -> "T1" [] i = 2 -> "T2" [] i = 3 -> "T3"
      [] i = 4 -> "T4" [] i = 5 -> "T5" [] i = 6 -> "T6" [] i = 7 -> "T7"
      [] i = 8 -> "T8" [] OTHER -> "T9"

\* the i-th Title as the scanner builds it: Steam and manual Titles in turn
CoverTitle(i) ==
    IF i % 2 = 1
    THEN NewGame(TitleName(i), "Steam", "app-" \o TitleName(i), "lib1/" \o TitleName(i))
    ELSE NewGame(TitleName(i), ManualSource, NONE, "manual/" \o TitleName(i) \o ".exe")

\* scan_library_background has just ended: it found `found` with the Catalog
\* `existing`, saved, emitted, and `started` rescans in a row have each started
\* the pipeline thread when a Title is without cover
AfterScanOf(found, existing, started) ==
    LET updated_list == Reconcile(found, existing)
        missing_count == Cardinality({i \in 1..Len(updated_list) : Unset(updated_list[i])})
    IN /\ heap = updated_list
       /\ all_games = NewRefs(<<>>, Len(updated_list))
       /\ db = SaveGamesToDb(<<>>, updated_list, TRUE)
       /\ scanned_games = found
       /\ now = 0
       /\ api_key = "key"
       /\ pipelines = IF missing_count > 0 THEN started ELSE 0
       /\ last_emit = "Scan complete"
       /\ op = [kind |-> "scan", saved |-> TRUE, failed |-> {}]
       /\ ops = 0
       /\ trk = [t \in Trackers |-> IdleTracker]
       /\ scn = [x \in ScanThreads |-> IdleScan]
       /\ procs = [x \in Pids |-> "unborn"]
       /\ pip = [x \in Pipes |-> IdlePipe]
       /\ wat = NewHandler
       /\ web = IdleWeb

\* the rescan of a library of n new Titles, after T0 whose cover an earlier
\* pipeline run left as the sentinel when old holds
AfterScan(n, old) ==
    LET kept == IF old THEN <<CoverTitle(0)>> ELSE <<>>
        found == kept \o [i \in 1..n |-> CoverTitle(i)]
        existing == [i \in 1..Len(kept) |-> [kept[i] EXCEPT !.grid_image_url = "MISSING"]]
    IN AfterScanOf(found, existing, 1)

InitCover == \E n \in 0..MaxTitles : AfterScan(n, TRUE)

NextCover == FetchBatch

\* the pipeline thread is scheduled until its loop ends
SpecCover == InitCover /\ [][NextCover]_vars /\ WF_vars(FetchBatch)

\* ----------------------- app.py: one batch, the answers of the service kept
\* one turn of the loop of fetch_missing_covers, whatever the service answers
FetchBatchTraced == FetchStep(RemoteAnswers, TRUE)

\* a rescan found one or two new Titles after T0 and started the pipeline
InitFetch == \E n \in 1..2 : AfterScan(n, TRUE)

NextFetch == FetchBatchTraced

SpecFetch == InitFetch /\ [][NextFetch]_vars

\* ------------------------------- app.py: _fetch_grid_image is called
\* the covers a Game can have when _fetch_grid_image gets it
Covers == {NONE, "", "MISSING", "grids/game/A"}

\* the Games _fetch_grid_image can get
FetchGames ==
    {[g EXCEPT !.grid_image_url = c] : g \in {SteamA1, EpicA, EaA, ManualA}, c \in Covers}

\* _fetch_grid_image of one Game (one call is followed)
FetchOne ==
    \E g \in FetchGames, out \in RemoteAnswers :
        /\ op.kind = "start"
        /\ ops' = ops + 1
        /\ op' = [kind |-> "fetch one", game |-> g, out |-> out,
                  requests |-> RequestsSent(g, out), after |-> FetchGridImage(g, out)]
        /\ UNCHANGED <<heap, all_games, db, now, api_key, scanned_games, pipelines,
                       last_emit, threads>>

NextFetchOne == FetchOne

SpecFetchOne == Init /\ [][NextFetchOne]_vars

\* --------------------------- app.py: the cover pipeline, step by step
\* a started fetch_missing_covers thread begins to run
PipeStart ==
    \E p \in Pipes :
        /\ pipelines > 0
        /\ pip[p].pc = "idle"
        /\ pipelines' = pipelines - 1
        /\ pip' = [pip EXCEPT ![p] = [@ EXCEPT !.pc = "queue"]]
        /\ op' = [kind |-> "pipe start"]
        /\ UNCHANGED <<heap, all_games, db, now, api_key, scanned_games, last_emit,
                       ops, trk, scn, procs, wat, web>>

\* the top of the loop: the queue of the unset Titles, and its first batch
PipeQueue ==
    \E p \in Pipes :
        LET queue == Queue(Catalog)
            batch == Batch(queue)
        IN /\ pip[p].pc = "queue"
           /\ pip' = [pip EXCEPT ![p] =
                        IF queue = <<>>
                        THEN [@ EXCEPT !.pc = "done"]
                        ELSE [@ EXCEPT !.pc = "fetch",
                                       !.batch = [k \in 1..Len(batch) |-> all_games[batch[k]]],
                                       !.stage = [k \in 1..Len(batch) |-> "todo"]]]
           /\ op' = [kind |-> "pipe queue"]
           /\ UNCHANGED <<heap, all_games, db, now, api_key, scanned_games, pipelines,
                          last_emit, ops, trk, scn, procs, wat, web>>

\* _fetch_grid_image of one Game of the batch, its first test: return when the
\* cover is set, else send the requests
PipeCheck ==
    \E p \in Pipes :
        \E k \in 1..Len(pip[p].batch) :
            LET g == heap[pip[p].batch[k]]
            IN /\ pip[p].pc = "fetch"
               /\ pip[p].stage[k] = "todo"
               /\ pip' = [pip EXCEPT ![p] =
                            IF Truthy(g.grid_image_url)
                            THEN [@ EXCEPT !.stage[k] = "done"]
                            ELSE [@ EXCEPT !.stage[k] = "flight",
                                           !.requested = Append(@, Key(g))]]
               /\ op' = [kind |-> "pipe check"]
               /\ UNCHANGED <<heap, all_games, db, now, api_key, scanned_games, pipelines,
                              last_emit, ops, trk, scn, procs, wat, web>>

\* _fetch_grid_image of one Game of the batch, the answers are in: the cover is
\* assigned
PipeWrite ==
    \E p \in Pipes, out \in FetchOutcomes :
        \E k \in 1..Len(pip[p].batch) :
            /\ pip[p].pc = "fetch"
            /\ pip[p].stage[k] = "flight"
            /\ heap' = [heap EXCEPT ![pip[p].batch[k]] =
                           [@ EXCEPT !.grid_image_url =
                                   GridResult(heap[pip[p].batch[k]], out)]]
            /\ pip' = [pip EXCEPT ![p] = [@ EXCEPT !.stage[k] = "done"]]
            /\ op' = [kind |-> "pipe write"]
            /\ UNCHANGED <<all_games, db, now, api_key, scanned_games, pipelines,
                           last_emit, ops, trk, scn, procs, wat, web>>

\* the batch is done: save_games_to_db(), the emit, and back to the top
PipeSave ==
    \E p \in Pipes, ok \in BOOLEAN :
        /\ pip[p].pc = "fetch"
        /\ \A k \in 1..Len(pip[p].batch) : pip[p].stage[k] = "done"
        /\ db' = SaveGamesToDb(db, Catalog, ok)
        /\ last_emit' = "Covers updated"
        /\ pip' = [pip EXCEPT ![p] = [@ EXCEPT !.pc = "queue", !.batch = <<>>, !.stage = <<>>]]
        /\ heap' = Sweep(heap, Range(all_games) \cup ThreadRefs(trk, scn, pip'))
        /\ op' = [kind |-> "pipe save", saved |-> ok]
        /\ UNCHANGED <<all_games, now, api_key, scanned_games, pipelines, ops, trk, scn, procs, wat, web>>

\* one rescan, or two in a row, found Title A and started the pipeline
InitPipe ==
    \E found \in {<<SteamA1>>, <<SteamA1, ManualA>>}, started \in {1, 2} :
        AfterScanOf(found, <<>>, started)

NextPipe ==
    \/ PipeStart
    \/ PipeQueue
    \/ PipeCheck
    \/ PipeWrite
    \/ PipeSave

SpecPipe == InitPipe /\ [][NextPipe]_vars

\* two rescans in a row, or one, found three Titles without cover and started
\* the pipeline
InitPool ==
    \E started \in {1, 2} :
        AfterScanOf([i \in 1..3 |-> CoverTitle(i)], <<>>, started)

SpecPool == InitPool /\ [][NextPipe]_vars

\* ------------------------------------------------- watcher.py: the events
\* on_any_event, `gap` ticks after the event before it
OnAnyEvent ==
    \E is_directory \in BOOLEAN, filename \in Filenames, gap \in Gaps :
        LET current_time == Epoch + now + gap
            relevant == ~is_directory /\ IsGameFile(filename)
            emit == relevant /\ ~Dropped(current_time, wat.last_event_time)
        IN /\ ops < MaxOps
           /\ now + gap <= MaxTime
           /\ ops' = ops + 1
           /\ now' = now + gap
           /\ wat' = [last_event_time |-> IF emit THEN current_time ELSE wat.last_event_time,
                      events |-> IF relevant THEN Append(wat.events, current_time)
                                 ELSE wat.events,
                      signals |-> IF emit THEN Append(wat.signals, current_time)
                                  ELSE wat.signals]
           /\ last_emit' = IF emit THEN "library_updated" ELSE last_emit
           /\ op' = [kind |-> "event", relevant |-> relevant,
                     is_directory |-> is_directory, filename |-> filename]
           /\ UNCHANGED <<heap, all_games, db, api_key, scanned_games, pipelines,
                          trk, scn, procs, pip, web>>

NextWatch == OnAnyEvent

SpecWatch == Init /\ [][NextWatch]_vars

\* ---------------------------- game_scanner.py: the folder check is called
\* a probe asks _is_valid_game_folder about a candidate (one call is followed)
ValidateFolder ==
    \E c \in Candidates :
        /\ op.kind = "start"
        /\ ops' = ops + 1
        /\ op' = [kind |-> "validate", candidate |-> c, result |-> IsValidGameFolder(c)]
        /\ UNCHANGED <<heap, all_games, db, now, api_key, scanned_games, pipelines,
                       last_emit, threads>>

NextFolder == ValidateFolder

SpecFolder == Init /\ [][NextFolder]_vars

\* ------------------------------ game_scanner.py: find_all_games is called
\* find_all_games collects the four futures (one call is followed)
FindGames ==
    \E res \in FutureOutcomes :
        /\ op.kind = "start"
        /\ ops' = ops + 1
        /\ op' = [kind |-> "find", res |-> res, games |-> FindAllGames(res)]
        /\ UNCHANGED <<heap, all_games, db, now, api_key, scanned_games, pipelines,
                       last_emit, threads>>

NextProbes == FindGames

SpecProbes == Init /\ [][NextProbes]_vars

\* ------------------------------ game_scanner.py: the EA probe at one entry
\* _find_ea_games reaches an entry of the EA registry (one entry is followed)
FindEaEntry ==
    \E e \in EaEntries, m \in EaMachines :
        /\ op.kind = "start"
        /\ ops' = ops + 1
        /\ op' = [kind |-> "ea entry", entry |-> e, machine |-> m,
                  games |-> EaEntryGames(e, m)]
        /\ UNCHANGED <<heap, all_games, db, now, api_key, scanned_games, pipelines,
                       last_emit, threads>>

NextEa == FindEaEntry

SpecEa == Init /\ [][NextEa]_vars

\* -------------------------------------------------- app.py: __main__
\* the stores a start can find: none, one row, two rows
StoredStores == {FreshStore, InstalledStore, <<ToRow(SteamA1), ToRow(ManualA)>>}

\* the program is started: all_games = [] of the module, nothing loaded yet
Boot ==
    /\ db \in StoredStores
    /\ heap = <<>>
    /\ all_games = <<>>
    /\ now = 0
    /\ api_key \in {"", "key"}
    /\ scanned_games = <<>>
    /\ pipelines = 0
    /\ last_emit = NONE
    /\ op = [kind |-> "boot"]
    /\ ops = 0
    /\ trk = [t \in Trackers |-> IdleTracker]
    /\ scn = [s \in ScanThreads |-> IdleScan]
    /\ procs = [p \in Pids |-> "unborn"]
    /\ pip = [p \in Pipes |-> IdlePipe]
    /\ wat = NewHandler
    /\ web = IdleWeb

\* __main__: load_games_from_db, which ends with the rows or, after an
\* exception, with all_games = []; then the scan thread is started when the
\* list is empty (start_watcher in between returns)
Main ==
    \E loaded \in BOOLEAN :
        LET games == IF loaded THEN LoadGamesFromDb(db) ELSE <<>>
        IN /\ op.kind = "boot"
           /\ heap' = games
           /\ all_games' = NewRefs(<<>>, Len(games))
           /\ scn' = [s \in ScanThreads |->
                        IF StartsScan(games) THEN [IdleScan EXCEPT !.pc = "started"]
                        ELSE IdleScan]
           /\ op' = [kind |-> "main", loaded |-> loaded]
           /\ UNCHANGED <<db, now, api_key, scanned_games, pipelines, last_emit, ops,
                          trk, procs, pip, wat, web>>

\* the scan thread main started runs scan_library_background
StartupScan ==
    \E s \in ScanThreads, res \in ScanInputs, ok \in BOOLEAN :
        /\ scn[s].pc = "started"
        /\ ScanEffects(res, ok)
        /\ scn' = [scn EXCEPT ![s] = [@ EXCEPT !.pc = "done", !.saved = ok]]
        /\ UNCHANGED <<now, api_key, ops, trk, procs, pip, wat, web>>

NextStart ==
    \/ Main
    \/ StartupScan

SpecStart == Boot /\ [][NextStart]_vars

\* ------------------------------------------------------------------ claims
KeysOf(games) == {Key(games[i]) : i \in 1..Len(games)}
IdsOf(games) == {UniqueId(games[i]) : i \in 1..Len(games)}
StoreIds == {db[i].id : i \in 1..Len(db)}

\* C1: when a rescan reconciles, every scanned Title whose (name, source) is
\* that of a Title of the Catalog gets that Title's favorite, hidden,
\* playtime_seconds and last_played; a scanned Title that matches none is kept
\* as scanned, with favorite = FALSE.
C1_CarryForward ==
    [][op'.kind = "scan" =>
        \A i \in 1..Len(scanned_games') :
            /\ \A j \in 1..Len(all_games) :
                  Key(Catalog[j]) = Key(scanned_games'[i]) =>
                      /\ Catalog'[i].favorite = Catalog[j].favorite
                      /\ Catalog'[i].hidden = Catalog[j].hidden
                      /\ Catalog'[i].playtime_seconds = Catalog[j].playtime_seconds
                      /\ Catalog'[i].last_played = Catalog[j].last_played
            /\ Key(scanned_games'[i]) \notin KeysOf(Catalog) =>
                  /\ Catalog'[i] = scanned_games'[i]
                  /\ ~Catalog'[i].favorite]_vars

\* the user and session fields of a Title, as the program reads them
UserFields(g) ==
    <<g.favorite, g.hidden, g.playtime_seconds, g.last_played, g.grid_image_url,
      GetAttr(g.avg_fps), GetAttr(g.best_ping)>>

\* C3: a rescan whose persist succeeds leaves every user and session field
\* (favorite, hidden, playtime, last played, cover, avg_fps, best_ping) of a
\* Title that is in the Catalog before and after it as it was, in the Catalog
\* and in the store. Stated for Catalogs without duplicate identities, where
\* it already fails.
C3_RescanKeepsUserState ==
    [][(op'.kind = "scan" /\ op'.saved
        /\ Cardinality(KeysOf(Catalog)) = Len(all_games)) =>
        /\ \A j \in 1..Len(all_games), i \in 1..Len(all_games') :
              Key(Catalog'[i]) = Key(Catalog[j]) =>
                  UserFields(Catalog'[i]) = UserFields(Catalog[j])
        /\ \A j \in 1..Len(db), i \in 1..Len(db') :
              (db'[i].id = db[j].id /\ db[j].id \in IdsOf(Catalog')) =>
                  UserFields(db'[i]) = UserFields(db[j])]_vars

\* C4: no two Titles of the Catalog have the same identity source|name.
C4_UniqueIdentity ==
    \A i, j \in 1..Len(all_games) :
        i # j => UniqueId(Catalog[i]) # UniqueId(Catalog[j])

\* C5: for every scan result and every Catalog the program reaches,
\* reconciling the scan against the result of reconciling it against the
\* Catalog gives that result again.
C5_ReconcileIdempotent ==
    \A res \in ScanInputs :
        LET scan == FindAllGames(res)
            first == Reconcile(scan, Catalog)
        IN Reconcile(scan, first) = first

\* a rescan has just reconciled a scan against a Catalog it took values from,
\* and reconciling that scan again changes nothing
C5_Witness ==
    /\ op.kind = "scan"
    /\ \E i \in 1..Len(all_games) : Catalog[i] # scanned_games[i]
    /\ Reconcile(scanned_games, Catalog) = Catalog

\* C6: after a reconcile the Catalog is the list of the scanned Titles, in
\* scan order (each with its scanned name, source, launch id and path), and
\* no Title of the old Catalog whose identity is not in the scan is in it.
C6_ReplaceSemantics ==
    [][op'.kind = "scan" =>
        /\ Len(all_games') = Len(scanned_games')
        /\ \A i \in 1..Len(all_games') :
              /\ Catalog'[i].name = scanned_games'[i].name
              /\ Catalog'[i].source = scanned_games'[i].source
              /\ Catalog'[i].launch_id = scanned_games'[i].launch_id
              /\ Catalog'[i].install_path = scanned_games'[i].install_path
        /\ \A j \in 1..Len(all_games) :
              Key(Catalog[j]) \notin KeysOf(scanned_games') =>
                  Key(Catalog[j]) \notin KeysOf(Catalog')]_vars

\* a rescan has just dropped a Title: the store still has its row, the scan
\* and the Catalog do not have it
C6_Witness ==
    /\ op.kind = "scan"
    /\ Len(all_games) > 0
    /\ \E r \in 1..Len(db) : db[r].id \notin IdsOf(Catalog)

\* C7: a rescan in which a probe failed and returned nothing removes no Title
\* of that probe's source from the Catalog: such a Title leaves the Catalog by
\* an explicit removal only.
C7_RemovalExplicitOnly ==
    [][op'.kind = "scan" =>
        \A j \in 1..Len(all_games) :
            ProbeOf(Catalog[j].source) \in op'.failed =>
                Key(Catalog[j]) \in KeysOf(Catalog')]_vars

\* C8: when 'Scan complete' is emitted after a persist that succeeded, every
\* Title of the Catalog has its row in the store and every row of the store is
\* the row of a Title of the Catalog, so no dropped Title is left in the store.
C8_StoreIsReplacedCatalog ==
    (op.kind = "scan" /\ op.saved /\ last_emit = "Scan complete") =>
        /\ IdsOf(Catalog) \subseteq StoreIds
        /\ \A r \in 1..Len(db) :
              \E i \in 1..Len(all_games) : db[r] = ToRow(Catalog[i])

\* C9: a scanned Title that matches a Title of the Catalog whose cover is
\* non-empty gets that cover; when the matching Titles have no cover it keeps
\* its own.
C9_CoverCarryForward ==
    [][op'.kind = "scan" =>
        \A i \in 1..Len(scanned_games') :
            /\ \A j \in 1..Len(all_games) :
                  (Key(Catalog[j]) = Key(scanned_games'[i])
                   /\ Truthy(Catalog[j].grid_image_url)) =>
                      Catalog'[i].grid_image_url = Catalog[j].grid_image_url
            /\ (/\ Key(scanned_games'[i]) \in KeysOf(Catalog)
                /\ \A j \in 1..Len(all_games) :
                      Key(Catalog[j]) = Key(scanned_games'[i]) =>
                          ~Truthy(Catalog[j].grid_image_url)) =>
                  Catalog'[i].grid_image_url = scanned_games'[i].grid_image_url]_vars

\* C10: the delta a tracker commits is the whole seconds from the detection of
\* its process to the end of tracking; the polls before detection do not count
C10_SessionLength ==
    \A t \in Trackers :
        trk[t].pc = "done" /\ trk[t].wrote =>
            trk[t].duration =
                (trk[t].ended_at[1] - trk[t].detected_at[1]) \div TicksPerSecond

RECURSIVE SumDurations(_)
SumDurations(ts) ==
    IF ts = {} THEN 0
    ELSE LET t == CHOOSE x \in ts : TRUE
         IN trk[t].duration + SumDurations(ts \ {t})

\* the threads have all run to their end
Quiescent ==
    /\ \A t \in Trackers : trk[t].pc = "done"
    /\ \A s \in ScanThreads : scn[s].pc \in {"idle", "done"}

\* C2: whatever the interleaving of two tracker commits on one Title, or of a
\* commit with a running rescan, the Title that stays in the scan ends with
\* its initial playtime plus every committed delta, in memory and in the store
C2_NoLostUpdate ==
    \A req \in LaunchRequests :
        LET i == FirstMatch(Catalog, req.name, req.source)
            committed == {t \in Trackers : trk[t].wrote /\ trk[t].game_name = req.name
                                            /\ trk[t].source = req.source}
            initial == InstalledStore[1].playtime_seconds
            saves == /\ \A t \in committed : trk[t].saved
                     /\ \A s \in ScanThreads : scn[s].pc = "done" => scn[s].saved
        IN Quiescent /\ i # 0
           /\ Cardinality({j \in 1..Len(Catalog) : Key(Catalog[j]) = Key(Catalog[i])}) = 1
           => /\ Catalog[i].playtime_seconds = initial + SumDurations(committed)
              /\ saves => \A k \in 1..Len(db) :
                            db[k].id = UniqueId(Catalog[i]) =>
                                db[k].playtime_seconds = initial + SumDurations(committed)

\* the processes a tracker's poll claims: alive, with the exe under its path
Matching(t) ==
    {p \in Pids : procs[p] = "alive" /\ StartsWith(ExeOf(p), trk[t].install_path)}

\* C11: a tracker makes at most 12 detection polls; a poll that finds a
\* matching process takes it to Tracking, the 12th poll that finds none takes
\* it to Abandoned; no detection poll changes a Title, the store or the last
\* notification, and an Abandoned tracker does nothing more.
C11_BoundedDetection ==
    [][\A t \in Trackers :
         /\ trk'[t].attempts <= DetectAttempts
         /\ (trk[t].pc = "armed" /\ trk'[t] # trk[t]) =>
               /\ trk'[t].attempts = trk[t].attempts + 1
               /\ trk'[t].pc = IF Matching(t) # {} THEN "tracking"
                               ELSE IF trk'[t].attempts = DetectAttempts THEN "abandoned"
                               ELSE "armed"
               /\ heap' = heap /\ all_games' = all_games
               /\ db' = db /\ last_emit' = last_emit
         /\ trk[t].pc = "abandoned" => trk'[t] = trk[t]]_vars

\* a tracker gave up after its 12th poll, with the Title, the store and the
\* notifications as they were at startup
C11_Witness ==
    \E t \in Trackers :
        /\ trk[t].pc = "abandoned"
        /\ trk[t].attempts = DetectAttempts
        /\ db = InstalledStore
        /\ Catalog = LoadGamesFromDb(InstalledStore)
        /\ last_emit = NONE

\* the clock has come to where a sleep can no longer be followed
Horizon == \A sleep \in SleepTicks : now + sleep > MaxTime

\* every process of tracker t's tracked set has exited
AllGone(t) == \A p \in trk[t].game_processes : procs[p] # "alive"

StartedUnset == Cardinality({i \in 1..Len(all_games) : Catalog[i].name # TitleName(0)})

\* C13: with no other change of the Catalog, each batch of the cover pipeline
\* is the first 5 unset Titles (all of them when fewer), gives each of them a
\* cover and touches no other Title, is followed by one persist and one
\* notification; the pipeline ends, after ceil(n/5) batches for n unset
\* Titles, with no Title unset.
C13_CoverBatches ==
    /\ [][(op'.kind = "fetch" /\ op'.batch # <<>>) =>
            LET queue == Queue(Catalog)
                size == IF Len(queue) < 5 THEN Len(queue) ELSE 5
            IN /\ op'.batch = SubSeq(queue, 1, size)
               /\ \A i \in 1..Len(all_games) :
                     IF \E k \in 1..size : queue[k] = i
                     THEN /\ ~Unset(Catalog'[i])
                          /\ [Catalog'[i] EXCEPT !.grid_image_url = NONE] =
                             [Catalog[i] EXCEPT !.grid_image_url = NONE]
                     ELSE Catalog'[i] = Catalog[i]
               /\ all_games' = all_games
               /\ ops' = ops + 1
               /\ last_emit' = "Covers updated"
               /\ op'.saved => \A i \in 1..Len(all_games) :
                                  \E r \in 1..Len(db') : db'[r] = ToRow(Catalog'[i])
               /\ ~op'.saved => db' = db]_vars
    /\ [](pipelines = 0 =>
            /\ \A i \in 1..Len(all_games) : ~Unset(Catalog[i])
            /\ ops = (StartedUnset + 4) \div 5)
    /\ <>(pipelines = 0)

\* 7 unset Titles: the second batch, of 2 Titles, has just been made and no
\* Title is left unset
C13_Witness ==
    /\ StartedUnset = 7
    /\ op.kind = "fetch"
    /\ Len(op.batch) = 2
    /\ ops = 2
    /\ last_emit = "Covers updated"
    /\ \A i \in 1..Len(all_games) : ~Unset(Catalog[i])

RECURSIVE Count(_, _)
Count(log, k) ==
    IF log = <<>> THEN 0
    ELSE (IF Head(log) = k THEN 1 ELSE 0) + Count(Tail(log), k)

\* the fetches the pipeline threads have sent for the Title of key k
RECURSIVE Requests(_, _)
Requests(ps, k) ==
    IF ps = {} THEN 0
    ELSE LET p == CHOOSE x \in ps : TRUE
         IN Count(pip[p].requested, k) + Requests(ps \ {p}, k)

\* C14: a Title whose cover is the sentinel is not taken into a batch and no
\* fetch is sent for it; and a Title that came to be unset once (by the rescan
\* that started the pipelines) has at most one fetch sent for it, however the
\* pipeline runs interleave.
C14_SentinelStability ==
    [][/\ \A p \in Pipes :
             (pip[p].pc = "queue" /\ pip'[p].pc = "fetch") =>
                 \A k \in 1..Len(pip'[p].batch) :
                     heap[pip'[p].batch[k]].grid_image_url # "MISSING"
       /\ \A p \in Pipes : \A k \in 1..Len(pip[p].batch) :
             (pip[p].pc = "fetch" /\ pip'[p].pc = "fetch"
              /\ pip[p].stage[k] = "todo" /\ pip'[p].stage[k] = "flight") =>
                 heap[pip[p].batch[k]].grid_image_url # "MISSING"
       /\ \A i \in 1..Len(all_games) :
             (Requests(Pipes, Key(Catalog[i])))' <= 1]_vars

\* C15: under every interleaving of the pipeline runs, a pipeline changes the
\* cover of a Title of the Catalog only when it is unset at the write: a cover
\* that is a URL or the sentinel is not replaced by another value.
C15_NoBlindOverwrite ==
    [][\A i \in 1..Len(all_games) :
          (op'.kind = "pipe write"
           /\ Catalog'[i].grid_image_url # Catalog[i].grid_image_url) =>
              Unset(Catalog[i])]_vars

\* the last element of a sequence of times
LastOf(times) == times[Len(times)]

\* C16: a relevant filesystem event is signalled exactly when it comes at
\* least 2 seconds after the signalled event before it (the first relevant
\* event is signalled); an event that is dropped, or not relevant, signals
\* nothing and leaves the reference time; so two signals are at least 2
\* seconds apart, two relevant events 1 second apart give one signal and two 3
\* seconds apart give two.
C16_Debounce ==
    /\ [][op'.kind = "event" =>
            LET t == Epoch + now'
                due == wat.signals = <<>> \/ t - LastOf(wat.signals) >= 2 * TicksPerSecond
            IN IF op'.relevant /\ due
               THEN /\ wat'.signals = Append(wat.signals, t)
                    /\ wat'.last_event_time = t
                    /\ last_emit' = "library_updated"
               ELSE /\ wat'.signals = wat.signals
                    /\ wat'.last_event_time = wat.last_event_time
                    /\ last_emit' = last_emit]_vars
    /\ [](\A i, j \in 1..Len(wat.signals) :
             i < j => wat.signals[j] - wat.signals[i] >= 2 * TicksPerSecond)
    /\ [](Len(wat.events) = 2 =>
             /\ wat.events[2] - wat.events[1] = 1 * TicksPerSecond => Len(wat.signals) = 1
             /\ wat.events[2] - wat.events[1] = 3 * TicksPerSecond => Len(wat.signals) = 2)

\* two relevant events 1 second apart have given one signal
C16_Witness ==
    /\ Len(wat.events) = 2
    /\ wat.events[2] - wat.events[1] = 1 * TicksPerSecond
    /\ Len(wat.signals) = 1
    /\ wat.last_event_time = wat.events[1]
    /\ last_emit = "library_updated"

\* the files of a candidate that count: those not under an installer backup
Counted(c) ==
    SelectSeq(WalkFiles(c.tree, 1), LAMBDA f : f.root # "games/A/__Installer")

\* the bytes of the files of fs whose size can be read
RECURSIVE Bytes(_)
Bytes(fs) ==
    IF fs = <<>> THEN 0
    ELSE (IF Head(fs).size = Unreadable THEN 0 ELSE Head(fs).size) + Bytes(Tail(fs))

\* the files of fs before the first one whose size cannot be read
RECURSIVE UpToUnreadable(_)
UpToUnreadable(fs) ==
    IF fs = <<>> \/ Head(fs).size = Unreadable THEN <<>>
    ELSE <<Head(fs)>> \o UpToUnreadable(Tail(fs))

RECURSIVE Succeeded(_, _)
Succeeded(res, order) ==
    IF order = <<>> THEN <<>>
    ELSE (IF Head(order) \in FailedProbes(res) THEN <<>> ELSE res[Head(order)].games)
         \o Succeeded(res, Tail(order))

\* C18: whichever of the four probes raise, the scan returns the lists of the
\* probes that succeeded, concatenated in probe order with nothing dropped;
\* when all four raise or find nothing it returns the empty list.
C18_ProbeIsolation ==
    op.kind = "find" =>
        /\ op.games = Succeeded(op.res, <<"steam", "epic", "ea", "manual">>)
        /\ Len(op.games) = Len(op.res.steam.games) + Len(op.res.epic.games)
                           + Len(op.res.ea.games) + Len(op.res.manual.games)
        /\ ((\A p \in {"steam", "epic", "ea", "manual"} :
                ~op.res[p].ok \/ op.res[p].games = <<>>) => op.games = <<>>)

\* two probes raised and the other two found the same name, both kept
C18_Witness ==
    /\ op.kind = "find"
    /\ FailedProbes(op.res) = {"steam", "ea"}
    /\ op.games = <<EpicA, ManualA>>

\* the fields a request names
Named(data) == DOMAIN data

\* C19: an update request whose (name, source) matches no Title answers
\* notFound and leaves the Catalog and the store as they were; one that matches
\* answers success, gives the first matching Title the values of the fields
\* the request names, leaves its other fields and every other Title as they
\* were, and leaves every Title of the Catalog with its row in the store.
C19_UpdateOutcome ==
    [][op'.kind = "update" =>
        LET i == FirstMatch(Catalog, op'.name, op'.source)
        IN IF i = 0
           THEN /\ op'.status = "error"
                /\ Catalog' = Catalog
                /\ db' = db
           ELSE /\ op'.status = "success"
                /\ Len(all_games') = Len(all_games)
                /\ \A j \in 1..Len(all_games) : j # i => Catalog'[j] = Catalog[j]
                /\ \A f \in DOMAIN Catalog[i] :
                      Catalog'[i][f] = IF f \in Named(op'.data) THEN op'.data[f]
                                       ELSE Catalog[i][f]
                /\ \A j \in 1..Len(all_games') : ToRow(Catalog'[j]) \in Range(db')]_vars

\* the operation recorded in o reached its save_games_to_db
Attempted(o) ==
    \/ o.kind = "scan"
    \/ o.kind = "update" /\ o.status = "success"
    \/ o.kind = "commit" /\ o.found
    \/ o.kind = "fetch" /\ o.batch # <<>>

\* what the collaborator gets from the operation recorded in o says it worked
ReportsSuccess(o, emit) ==
    \/ o.kind = "scan" /\ emit = "Scan complete"
    \/ o.kind = "update" /\ o.status = "success"
    \/ o.kind = "commit" /\ emit = "game_updated"
    \/ o.kind = "fetch" /\ emit = "Covers updated"

\* C20: an operation (update, reconcile, tracker commit, cover batch) whose
\* write to the store fails does not report success to the collaborator, and an
\* update keeps its mutation in the Catalog; when the operation after a failed
\* write persists successfully, the Titles of the Catalog and the rows of the
\* store are the same again.
C20_PersistenceError ==
    [][/\ (Attempted(op') /\ ~op'.saved) => ~ReportsSuccess(op', last_emit')
       /\ (op'.kind = "update" /\ op'.status = "success" /\ ~op'.saved) =>
             LET i == FirstMatch(Catalog, op'.name, op'.source)
             IN Catalog'[i] = ApplyUpdate(Catalog[i], op'.data)
       /\ (Attempted(op) /\ ~op.saved /\ Attempted(op') /\ op'.saved) =>
             {ToRow(Catalog'[j]) : j \in 1..Len(all_games')} = Range(db')]_vars

\* C21: when an update of favorite or hidden has answered success and the
\* rescan running beside it has finished, the Title, if the new scan holds it
\* once, has the requested value in the Catalog and, the writes having
\* succeeded, in the store.
C21_UpdateRacingRescan ==
    LET i == FirstMatch(Catalog, web.name, web.source)
    IN (/\ web.pc = "done" /\ web.status = "success"
        /\ \A s \in ScanThreads : scn[s].pc = "done"
        /\ i # 0
        /\ Cardinality({j \in 1..Len(Catalog) : Key(Catalog[j]) = Key(Catalog[i])}) = 1)
       => \A f \in Named(web.data) \cap {"favorite", "hidden"} :
             /\ Catalog[i][f] = web.data[f]
             /\ (web.saved /\ \A s \in ScanThreads : scn[s].saved) =>
                   \A k \in 1..Len(db) :
                      db[k].id = UniqueId(Catalog[i]) => db[k][f] = web.data[f]

\* C22: a tracker commit with delta d adds d to the playtime_seconds of the
\* first Title with the tracker's name and source and sets its last_played to
\* the commit time; no other field of it and no other Title changes; every
\* Title of the Catalog has its row in the store and 'game_updated' is emitted
\* with that Title.
C22_CommitEffect ==
    [][(op'.kind = "commit" /\ op'.found) =>
        LET i == FirstMatch(Catalog, op'.name, op'.source)
        IN /\ Catalog'[i].playtime_seconds = Catalog[i].playtime_seconds + op'.duration
           /\ Catalog'[i].last_played = <<now'>>
           /\ \A f \in DOMAIN Catalog[i] \ {"playtime_seconds", "last_played"} :
                 Catalog'[i][f] = Catalog[i][f]
           /\ Len(all_games') = Len(all_games)
           /\ \A j \in 1..Len(all_games) : j # i => Catalog'[j] = Catalog[j]
           /\ last_emit' = "game_updated"
           /\ op'.payload = <<Catalog'[i]>>
           /\ \A j \in 1..Len(all_games') : ToRow(Catalog'[j]) \in Range(db')]_vars

\* C23: after a rescan every Title of the Catalog has the install_path and the
\* launch_id of the scanned Title it was made from, also when it matched an
\* entry of the Catalog that had other ones.
C23_ScannedLocationWins ==
    [][op'.kind = "scan" =>
        /\ Len(all_games') = Len(scanned_games')
        /\ \A i \in 1..Len(scanned_games') :
              /\ Catalog'[i].install_path = scanned_games'[i].install_path
              /\ Catalog'[i].launch_id = scanned_games'[i].launch_id]_vars

\* A was found in lib1 and made a favorite; a rescan found it in lib2 and kept
\* the favorite (its write failed, the store still has the row of lib1)
C23_Witness ==
    /\ op.kind = "scan" /\ ~op.saved
    /\ scanned_games = <<SteamA2>>
    /\ Len(all_games) = 1
    /\ Catalog[1].favorite
    /\ Catalog[1].install_path = "lib2/A"
    /\ \E k \in 1..Len(db) : db[k].install_path = "lib1/A" /\ db[k].favorite

\* the _fetch_grid_image calls whose requests are out
InFlight == {<<p, k>> \in Pipes \X (1..MaxTitles) :
                k <= Len(pip[p].stage) /\ pip[p].stage[k] = "flight"}

\* the pipeline threads that are inside a batch, not yet saved and notified
InBatch == {p \in Pipes : pip[p].pc = "fetch"}

\* C24: in every reachable state at most 5 cover fetches are in flight, and no
\* batch is under way while another is not yet persisted and notified.
C24_BoundedFetch ==
    /\ Cardinality(InFlight) <= 5
    /\ Cardinality(InBatch) <= 1

\* C25: a rescan starts a pipeline run exactly when the key is non-empty and a
\* Title of the reconciled Catalog has no cover; with no key no run is ever
\* waiting, no batch is fetched and no Title gets a cover it did not have.
C25_PipelineStart ==
    /\ [][op'.kind = "scan" =>
            LET credential == api_key # NONE /\ api_key # ""
                unset == \E i \in 1..Len(all_games') :
                            Catalog'[i].grid_image_url \in {NONE, ""}
            IN pipelines' = IF credential /\ unset THEN pipelines + 1 ELSE pipelines]_vars
    /\ [][(api_key = NONE \/ api_key = "") =>
            /\ pipelines' = 0
            /\ op'.kind # "fetch"
            /\ \A i \in 1..Len(all_games') :
                  Catalog'[i].grid_image_url \notin {NONE, ""} =>
                      (\E j \in 1..Len(all_games) :
                          /\ Key(Catalog[j]) = Key(Catalog'[i])
                          /\ Catalog[j].grid_image_url = Catalog'[i].grid_image_url)
       ]_vars

\* a rescan with a key has ended with a Title without cover and started a run
C25_Witness ==
    /\ op.kind = "scan"
    /\ api_key = "key"
    /\ pipelines = 1
    /\ \E i \in 1..Len(all_games) : Catalog[i].grid_image_url = NONE

\* the requests of a fetch of g found a cover: the direct lookup for a Steam
\* Title, or, the direct lookup not tried or come back without data, the name
\* search and its grid lookup
Resolved(g, a) ==
    \/ g.source = "Steam" /\ a.direct = "hit"
    \/ /\ g.source # "Steam" \/ a.direct \in {"empty", "not ok"}
       /\ a.search = "hit"
       /\ a.grid = "hit"

\* C26: whatever the remote calls answer (data, empty result, non-OK status,
\* timeout or exception), every Title of a batch has a non-empty cover when
\* the batch returns: a resolved url when a lookup found one, the sentinel
\* 'MISSING' otherwise, whatever happened to the other Titles of the batch.
C26_FetchResolves ==
    [][op'.kind = "fetch" =>
        \A k \in 1..Len(op'.batch) :
            LET i == op'.batch[k]
                url == Catalog'[i].grid_image_url
            IN /\ url \notin {NONE, ""}
               /\ IF Resolved(Catalog[i], op'.outs[k])
                  THEN url \in {"grids/steam/" \o Catalog[i].launch_id,
                                "grids/game/" \o Catalog[i].name}
                  ELSE url = "MISSING"]_vars

\* in one batch the fetch of T1 timed out and the fetch of T2 found a cover
C26_Witness ==
    /\ op.kind = "fetch"
    /\ Len(op.batch) = 2
    /\ op.outs[1].direct = "error"
    /\ Catalog[op.batch[1]].grid_image_url = "MISSING"
    /\ Catalog[op.batch[2]].grid_image_url = "grids/game/T2"

\* C27: for a Steam Title the direct lookup is the first request, and the name
\* search is sent only when the direct lookup came back without a result; for
\* any other source the requests are the name search, then the grid lookup when
\* the search found a game, and never the direct lookup; a Game whose cover is
\* non-empty gets no request and stays as it is.
C27_FetchOrder ==
    op.kind = "fetch one" =>
        LET g == op.game
            sent == op.requests
            Sent(r) == \E n \in 1..Len(sent) : sent[n] = r
        IN IF g.grid_image_url \notin {NONE, ""}
           THEN sent = <<>> /\ op.after = g
           ELSE /\ g.source = "Steam" =>
                     /\ sent[1] = "direct"
                     /\ Sent("search") => op.out.direct \in {"empty", "not ok"}
                /\ g.source # "Steam" =>
                     /\ ~Sent("direct")
                     /\ sent[1] = "search"
                /\ Sent("grid") => /\ sent[Len(sent) - 1] = "search"
                                   /\ sent[Len(sent)] = "grid"
                /\ \A m, n \in 1..Len(sent) : m # n => sent[m] # sent[n]

\* the direct lookup of a Steam Title came back empty and the name search and
\* the grid lookup followed
C27_Witness ==
    /\ op.kind = "fetch one"
    /\ op.game.source = "Steam"
    /\ op.game.grid_image_url = NONE
    /\ op.out.direct = "empty"
    /\ op.requests = <<"direct", "search", "grid">>
    /\ op.after.grid_image_url = "grids/game/A"

\* C28: an event for a directory, or for a file that is no Steam manifest, no
\* Epic .item file, not installerdata.xml and not manual_games.json, emits no
\* 'library_updated' and leaves last_event_time as it was.
C28_RelevanceFilter ==
    [][(/\ op'.kind = "event"
        /\ \/ op'.is_directory
           \/ op'.filename \notin {"appmanifest_70.acf", "A.item", "installerdata.xml",
                                   "manual_games.json"})
        => /\ wat'.signals = wat.signals
           /\ wat'.last_event_time = wat.last_event_time
           /\ last_emit' = last_emit]_vars

\* config.json changed more than a debounce period after the last signal: had
\* it been a game file, it would have been signalled
C28_Witness ==
    /\ op.kind = "event"
    /\ ~op.is_directory
    /\ op.filename = "config.json"
    /\ Len(wat.signals) = 1
    /\ Epoch + now - wat.last_event_time >= 2 * TicksPerSecond

\* the uninstall entries of the machine that map the name of the entry: they
\* have a name and a path and the same normalized name
Mapping(e, m) ==
    {i \in 1..Len(m.uninstall) :
        /\ m.uninstall[i].name # <<>>
        /\ m.uninstall[i].path # ""
        /\ CleanName(m.uninstall[i].name) = CleanName(e.name)}

\* the folder the uninstall map gives for the entry passes the size check
FolderPasses(e, m) ==
    \E i \in Mapping(e, m) :
        /\ \A j \in Mapping(e, m) : j <= i
        /\ m.uninstall[i].path = "games/A"
        /\ m.tree = BigTree

\* the two corroboration paths, for an entry whose name can be read
TwoPaths(e, m) ==
    \/ Mapping(e, m) # {} /\ FolderPasses(e, m)
    \/ Mapping(e, m) = {} /\ HasStartMenuShortcut(e.name, m)

\* C29 as stated: an entry of the client registry becomes a Title exactly when
\* its normalized name is in the uninstall map and the mapped folder passes the
\* size check, or it is not in the map and a Start Menu shortcut corroborates
\* it.
C29_TwoPathValidation ==
    (op.kind = "ea entry" /\ op.entry.name # NoValue) =>
        (op.games # <<>> <=> TwoPaths(op.entry, op.machine))

\* C29, amended: an entry with a non-empty display name becomes a Title exactly
\* when one of the two corroboration paths succeeds; an entry whose display name
\* is empty or cannot be read never becomes a Title; an entry in the map whose
\* folder fails is rejected whatever the Start Menu holds.
C29_TwoPathValidationNamed ==
    op.kind = "ea entry" =>
        /\ op.games # <<>> <=> /\ op.entry.name \notin {NoName, NoValue}
                               /\ TwoPaths(op.entry, op.machine)
        /\ (Mapping(op.entry, op.machine) # {} /\ ~FolderPasses(op.entry, op.machine))
              => op.games = <<>>

\* Sk8 is in the uninstall map with a folder under 50 MB and has a shortcut in
\* the Start Menu: it is rejected
C29_Witness ==
    /\ op.kind = "ea entry"
    /\ op.entry.name = Sk8Name
    /\ Mapping(op.entry, op.machine) # {}
    /\ op.machine.tree = SmallTree
    /\ HasStartMenuShortcut(op.entry.name, op.machine)
    /\ op.games = <<>>

\* C30: when the load of the store fails at startup the program goes on with
\* an empty Catalog and a rescan is started; a rescan is started as well when
\* the load gives no Title, and none is started when it gives one or more, the
\* Catalog being the Titles of the rows.
C30_StartupEscalation ==
    [][op'.kind = "main" =>
        LET rescan == \A s \in ScanThreads : scn'[s].pc = "started"
            none == \A s \in ScanThreads : scn'[s].pc = "idle"
        IN /\ ~op'.loaded => Len(all_games') = 0 /\ rescan
           /\ (op'.loaded /\ Len(db) = 0) => Len(all_games') = 0 /\ rescan
           /\ (op'.loaded /\ Len(db) > 0) =>
                 /\ Len(all_games') = Len(db)
                 /\ \A i \in 1..Len(db) : Key(Catalog'[i]) = <<db[i].name, db[i].source>>
                 /\ none]_vars

\* the store held rows, its load failed, and the rescan main started has run
C30_Witness ==
    /\ op.kind = "scan"
    /\ \A s \in ScanThreads : scn[s].pc = "done"
    /\ ops = 0
    /\ \E k \in 1..Len(db) : db[k].source = ManualSource
    /\ scanned_games = <<SteamA1>>
\* the processes a poll of tracker t claims by their path, among all there are
Claimed(t) ==
    {p \in DOMAIN procs : procs[p] = "alive" /\ StartsWith(ExeOf(p), trk[t].install_path)}

\* C31: the poll that takes a tracker to Tracking leaves as its tracked set
\* exactly the processes alive at that poll whose normalized executable path
\* starts with the tracker's normalized install path, with their descendants;
\* from then on a poll only takes processes out of the set: a process that
\* started after detection is not added, whatever its path.
C31_TrackedSetFixed ==
    [][\A t \in Trackers :
         /\ (trk[t].pc = "armed" /\ trk'[t].pc = "tracking") =>
               /\ Claimed(t) # {}
               /\ trk'[t].game_processes =
                     Claimed(t) \cup {p \in DOMAIN procs : procs[p] = "alive"
                                                           /\ ParentOf(p) \in Claimed(t)}
         /\ trk[t].pc = "tracking" =>
               trk'[t].game_processes \subseteq trk[t].game_processes]_vars

\* a tracking poll has run since the patcher, whose path matches, was started
\* after detection: the tracker follows the game and not the patcher
C31_Witness ==
    \E t \in Trackers :
        /\ trk[t].pc = "tracking"
        /\ op.kind = "track"
        /\ procs["game"] = "alive"
        /\ "patcher" \in DOMAIN procs /\ procs["patcher"] = "alive"
        /\ StartsWith(ExeOf("patcher"), trk[t].install_path)
        /\ trk[t].game_processes = {"game"}
\* C32: once a manual removal of name n has answered success, neither the
\* Catalog nor the store holds a Title of source 'Other Games' and name n,
\* and the Title of the same name of another source is still in both,
\* whatever a tracker's commit did beside the removal.
C32_ManualRemoval ==
    (web.pc = "done" /\ web.source = ManualSource /\ web.status = "success") =>
        /\ \A i \in 1..Len(Catalog) :
              ~(Catalog[i].name = web.name /\ Catalog[i].source = ManualSource)
        /\ \A k \in 1..Len(db) :
              ~(db[k].name = web.name /\ db[k].source = ManualSource)
        /\ \E i \in 1..Len(Catalog) :
              Catalog[i].name = web.name /\ Catalog[i].source = "Steam"
        /\ \E k \in 1..Len(db) :
              db[k].name = web.name /\ db[k].source = "Steam"
\* C33: a tracker commit for a name and source that no Title of the Catalog
\* has changes no Title, leaves the Catalog, the store and the clock reading
\* as they were, and emits nothing.
C33_VanishedCommit ==
    [][(/\ op'.kind = "commit"
        /\ ops' = ops + 1
        /\ \A i \in 1..Len(Catalog) :
              ~(Catalog[i].name = op'.name /\ Catalog[i].source = op'.source)) =>
          (/\ heap' = heap
           /\ all_games' = all_games
           /\ db' = db
           /\ now' = now
           /\ last_emit' = last_emit
           /\ op'.payload = <<>>)]_vars

\* a commit came for a Title that a rescan had dropped from the Catalog: its
\* row is still in the store, written by the rescan that had found it, and
\* the last notification is still that of a rescan
C33_Witness ==
    /\ op.kind = "commit"
    /\ ~op.found
    /\ \A i \in 1..Len(Catalog) :
          ~(Catalog[i].name = op.name /\ Catalog[i].source = op.source)
    /\ \E k \in 1..Len(db) : db[k].name = op.name /\ db[k].source = op.source
    /\ last_emit = "Scan complete"
====
